---- MODULE Spec2Model ----
(***************************************************************************)
(* goresponse: the AsyncConfigManager (async configuration refresh engine) *)
(* and the two-tier (manual over loaded) template store it owns.           *)
(*                                                                         *)
(* Snapshots (ResponseConfig pointers) and manual maps (Go maps) are heap  *)
(* objects addressed by index, because the code shares them by reference.  *)
(* Every critical section of the manager's mutex is one action; the code   *)
(* outside the mutex (LoadConfig in refreshConfig, the callback fan-out,   *)
(* the ticker) is split into the steps other goroutines can interleave.    *)
(***************************************************************************)
EXTENDS Integers, Sequences, FiniteSets, TLC

(***************************************************************************)
(* Bounds.                                                                 *)
(***************************************************************************)
MaxSnapshots == 2       \* snapshots LoadConfig may allocate in one behaviour
MaxLoops     == 2       \* refreshLoop goroutines that may exist at once
MaxCallbacks == 2       \* length of the callback list

NIL == 0                \* nil pointer, nil map
Unlocked == <<"unlocked", 0>>   \* acm.mu held by nobody

(***************************************************************************)
(* Values the callers and the environment choose from.                     *)
(***************************************************************************)
Loops    == {<<"loop", i>> : i \in 1..MaxLoops}   \* refreshLoop goroutines
Forcers  == {<<"force", 1>>}             \* goroutines calling ForceRefresh
Tasks    == Loops \cup Forcers          \* everything that runs refreshConfig

SrcA == [Method |-> "file", Path |-> "a.json"]
SrcB == [Method |-> "url",  Path |-> "b.json"]
Sources   == {SrcA, SrcB}               \* sources handed to the manager
Methods   == {s.Method : s \in Sources}
Paths     == {s.Path : s \in Sources}
AnySource == [Method : Methods, Path : Paths]

Intervals == {1, 2}
Callbacks == {"cbA", "cbB"}
Keys      == {"welcome"}

\* A document a source may hold: its message_templates (loaded tier).
DocV1 == [welcome |-> [Key |-> "welcome", Template |-> "Welcome v1"]]
DocV2 == [welcome |-> [Key |-> "welcome", Template |-> "Welcome v2"]]
Documents == {DocV1, DocV2}
Unreadable == [unreadable |-> TRUE]     \* missing file, bad status, bad JSON

\* Templates a caller registers manually.
ManualTemplates ==
    { [Key |-> "welcome", Template |-> "HELLO 1"],
      [Key |-> "welcome", Template |-> "HELLO 2"] }

NoError == [msg |-> "nil"]
ErrAlreadyRunning == [msg |-> "async config manager is already running"]
NotFound == [found |-> FALSE]

VARIABLES
    world,       \* what each source location currently serves
    configs,     \* heap of *ResponseConfig objects
    maps,        \* heap of Go maps used as ManualMessageTemplates
    source,      \* acm.source
    config,      \* acm.config (index into configs, NIL when nil)
    interval,    \* acm.interval
    callbacks,   \* acm.callbacks
    isRunning,   \* acm.isRunning
    lastError,   \* acm.lastError
    ctxDone,     \* acm.ctx has been cancelled
    mu,          \* acm.mu: Unlocked, or the task that holds it for ever
    pc,          \* position of every task
    tick,        \* loop's ticker.C holds a tick (channel of capacity 1)
    ticker,      \* period the loop's ticker was created with
    lsrc,        \* refreshConfig: the argument copied from acm.source
    newConfig,   \* refreshConfig: newConfig
    oldConfig,   \* refreshConfig: oldConfig
    lerr,        \* refreshConfig: err
    cbs,         \* refreshConfig: callbacks (the captured slice)
    idx,         \* refreshConfig: position of the range loop over callbacks
    ret,         \* the call that returned last, and the value it returned
    addedInFlight, \* history: the tasks whose refresh was between its start
                   \* and its installation when a manual template was added
    outcome,     \* history: err of the refreshConfig call a ForceRefresh made
    removed      \* history: the callbacks RemoveAllCallbacks dropped that
                 \* have not been registered again

mgr   == <<source, config, interval, callbacks, isRunning, lastError, ctxDone, mu>>
heap  == <<configs, maps>>
locs  == <<lsrc, newConfig, oldConfig, lerr, cbs, idx>>
loopv == <<tick, ticker>>
hist  == <<addedInFlight, outcome, removed>>
vars  == <<world, configs, maps, source, config, interval, callbacks, isRunning,
           lastError, ctxDone, mu, pc, tick, ticker, lsrc, newConfig,
           oldConfig, lerr, cbs, idx, ret, addedInFlight, outcome, removed>>

(***************************************************************************)
(* The loader collaborator.                                                *)
(***************************************************************************)
LoadError(src) == [msg |-> "load failed", src |-> src]

\* LoadConfig(source): a freshly built ResponseConfig, or an error.  The
\* manual tier is not part of the document (json:"-"), so it is nil.
LoadOk(src) == src \in DOMAIN world /\ world[src] # Unreadable

\* The parts of a document that are the same in every version of it.
DocDefaultLanguage == "en"
DocLanguages == <<"en", "id">>
DocTranslations ==
    [en |-> [hello |-> "Hello", welcome |-> "Welcome $name"],
     id |-> [welcome |-> "Selamat datang $name"]]

LoadedConfig(src) ==
    [MessageTemplates |-> world[src], ManualMessageTemplates |-> NIL,
     DefaultLanguage |-> DocDefaultLanguage, Languages |-> DocLanguages,
     Translations |-> DocTranslations]

(***************************************************************************)
(* ResponseConfig methods, on the heap h = <<configs, maps>>.              *)
(***************************************************************************)
ManualOf(cs, ms, c) ==
    IF cs[c].ManualMessageTemplates = NIL THEN <<>>
    ELSE ms[cs[c].ManualMessageTemplates]

\* Variant: the loaded tier is consulted before the manual tier.
ConfigGetMessageTemplateLoadedFirst(cs, ms, c, key) ==
    IF key \in DOMAIN cs[c].MessageTemplates
    THEN cs[c].MessageTemplates[key]
    ELSE IF cs[c].ManualMessageTemplates # NIL
            /\ key \in DOMAIN ms[cs[c].ManualMessageTemplates]
         THEN ms[cs[c].ManualMessageTemplates][key]
         ELSE NotFound

\* (c *ResponseConfig) GetMessageTemplate(key)
ConfigGetMessageTemplate(cs, ms, c, key) ==
    IF cs[c].ManualMessageTemplates # NIL
       /\ key \in DOMAIN ms[cs[c].ManualMessageTemplates]
    THEN ms[cs[c].ManualMessageTemplates][key]
    ELSE IF key \in DOMAIN cs[c].MessageTemplates
         THEN cs[c].MessageTemplates[key]
         ELSE NotFound

\* map[key] = value on a Go map
MapPut(m, key, val) ==
    [k \in DOMAIN m \cup {key} |-> IF k = key THEN val ELSE m[k]]

\* delete(map, key)
MapDelete(m, key) == [k \in DOMAIN m \ {key} |-> m[k]]

EmptyMap == [k \in {} |-> NotFound]

\* Variant: the template is written into the loaded tier.
ConfigAddMessageTemplateIntoLoaded(cs, ms, c, t) ==
    << [cs EXCEPT ![c].MessageTemplates = MapPut(@, t.Key, t)], ms >>

\* Variant: a key the manual tier already holds keeps its template.
ConfigAddMessageTemplateIfAbsent(cs, ms, c, t) ==
    IF cs[c].ManualMessageTemplates = NIL
    THEN << [cs EXCEPT ![c].ManualMessageTemplates = Len(ms) + 1],
            Append(ms, MapPut(EmptyMap, t.Key, t)) >>
    ELSE IF t.Key \in DOMAIN ms[cs[c].ManualMessageTemplates]
         THEN << cs, ms >>
         ELSE << cs,
                 [ms EXCEPT ![cs[c].ManualMessageTemplates] = MapPut(@, t.Key, t)] >>

\* (c *ResponseConfig) AddMessageTemplate(template): the heap afterwards
ConfigAddMessageTemplate(cs, ms, c, t) ==
    IF cs[c].ManualMessageTemplates = NIL
    THEN << [cs EXCEPT ![c].ManualMessageTemplates = Len(ms) + 1],
            Append(ms, MapPut(EmptyMap, t.Key, t)) >>
    ELSE << cs,
            [ms EXCEPT ![cs[c].ManualMessageTemplates] = MapPut(@, t.Key, t)] >>

\* Variant: the arguments are stored from the last to the first.
RECURSIVE ConfigAddMessageTemplatesBackwards(_, _, _, _)
ConfigAddMessageTemplatesBackwards(cs, ms, c, ts) ==
    IF ts = <<>> THEN << cs, ms >>
    ELSE LET h == ConfigAddMessageTemplatesBackwards(cs, ms, c, Tail(ts))
         IN  ConfigAddMessageTemplate(h[1], h[2], c, Head(ts))

\* (c *ResponseConfig) AddMessageTemplates(templates...): the heap afterwards
RECURSIVE ConfigAddMessageTemplates(_, _, _, _)
ConfigAddMessageTemplates(cs, ms, c, ts) ==
    IF ts = <<>> THEN << cs, ms >>
    ELSE LET h == ConfigAddMessageTemplate(cs, ms, c, Head(ts))
         IN  ConfigAddMessageTemplates(h[1], h[2], c, Tail(ts))

\* Variant: the key is deleted from the loaded tier as well.
ConfigRemoveMessageTemplateBothTiers(cs, ms, c, key) ==
    IF cs[c].ManualMessageTemplates # NIL
    THEN << [cs EXCEPT ![c].MessageTemplates = MapDelete(@, key)],
            [ms EXCEPT ![cs[c].ManualMessageTemplates] = MapDelete(@, key)] >>
    ELSE << [cs EXCEPT ![c].MessageTemplates = MapDelete(@, key)], ms >>

\* (c *ResponseConfig) RemoveMessageTemplate(key): the heap afterwards
ConfigRemoveMessageTemplate(cs, ms, c, key) ==
    IF cs[c].ManualMessageTemplates # NIL
    THEN << cs,
            [ms EXCEPT ![cs[c].ManualMessageTemplates] = MapDelete(@, key)] >>
    ELSE << cs, ms >>

\* A (string, bool) result.
Found(s) == [text |-> s, found |-> TRUE]
Missing == [text |-> "", found |-> FALSE]

\* (c *ResponseConfig) GetTranslation(lang, key)
ConfigGetTranslation(cs, c, lang, key) ==
    IF lang \in DOMAIN cs[c].Translations
       /\ key \in DOMAIN cs[c].Translations[lang]
    THEN Found(cs[c].Translations[lang][key])
    ELSE Missing

\* Variant: a miss in the requested language goes straight to the key.
ConfigGetTranslationWithFallbackNoDefault(cs, c, lang, key) ==
    IF ConfigGetTranslation(cs, c, lang, key).found
    THEN ConfigGetTranslation(cs, c, lang, key).text
    ELSE key

\* (c *ResponseConfig) GetTranslationWithFallback(lang, key)
ConfigGetTranslationWithFallback(cs, c, lang, key) ==
    IF ConfigGetTranslation(cs, c, lang, key).found
    THEN ConfigGetTranslation(cs, c, lang, key).text
    ELSE IF ConfigGetTranslation(cs, c, cs[c].DefaultLanguage, key).found
         THEN ConfigGetTranslation(cs, c, cs[c].DefaultLanguage, key).text
         ELSE key

\* template.Translations of a MessageTemplate (a nil map has no entries)
TranslationsOf(t) ==
    IF "Translations" \in DOMAIN t THEN t.Translations ELSE <<>>

\* The translation of a tier's entry for templateKey into lang.
TierTranslation(tier, templateKey, lang) ==
    IF templateKey \in DOMAIN tier
       /\ lang \in DOMAIN TranslationsOf(tier[templateKey])
    THEN Found(TranslationsOf(tier[templateKey])[lang])
    ELSE Missing

\* Variant: a miss in the requested language goes straight to the plain
\* template text, without the default language.
ConfigGetMessageTemplateTranslationNoHop(cs, ms, c, templateKey, lang) ==
    LET manual   == TierTranslation(ManualOf(cs, ms, c), templateKey, lang)
        loaded   == TierTranslation(cs[c].MessageTemplates, templateKey, lang)
        template == ConfigGetMessageTemplate(cs, ms, c, templateKey)
    IN  IF manual.found
        THEN [text |-> manual.text, found |-> TRUE, hops |-> 0]
        ELSE IF loaded.found
        THEN [text |-> loaded.text, found |-> TRUE, hops |-> 0]
        ELSE IF template # NotFound
        THEN [text |-> template.Template, found |-> TRUE, hops |-> 0]
        ELSE [text |-> "", found |-> FALSE, hops |-> 0]

\* (c *ResponseConfig) GetMessageTemplateTranslation(templateKey, lang): the
\* result, and in hops the depth of the recursion that produced it.
RECURSIVE ConfigGetMessageTemplateTranslationHops(_, _, _, _, _)
ConfigGetMessageTemplateTranslationHops(cs, ms, c, templateKey, lang) ==
    LET manual   == TierTranslation(ManualOf(cs, ms, c), templateKey, lang)
        loaded   == TierTranslation(cs[c].MessageTemplates, templateKey, lang)
        template == ConfigGetMessageTemplate(cs, ms, c, templateKey)
    IN  IF manual.found
        THEN [text |-> manual.text, found |-> TRUE, hops |-> 0]
        ELSE IF loaded.found
        THEN [text |-> loaded.text, found |-> TRUE, hops |-> 0]
        ELSE IF lang # cs[c].DefaultLanguage
        THEN [ConfigGetMessageTemplateTranslationHops(
                  cs, ms, c, templateKey, cs[c].DefaultLanguage)
                EXCEPT !.hops = @ + 1]
        ELSE IF template # NotFound
        THEN [text |-> template.Template, found |-> TRUE, hops |-> 0]
        ELSE [text |-> "", found |-> FALSE, hops |-> 0]

ConfigGetMessageTemplateTranslation(cs, ms, c, templateKey, lang) ==
    LET r == ConfigGetMessageTemplateTranslationHops(cs, ms, c, templateKey, lang)
    IN  [text |-> r.text, found |-> r.found]

\* Variant: a key no tier defines resolves to the empty string.
ConfigGetMessageTemplateTranslationWithFallbackEmpty(cs, ms, c, templateKey, lang) ==
    LET first == ConfigGetMessageTemplateTranslation(cs, ms, c, templateKey, lang)
    IN  IF first.found THEN first.text ELSE ""

\* (c *ResponseConfig) GetMessageTemplateTranslationWithFallback(templateKey, lang)
ConfigGetMessageTemplateTranslationWithFallback(cs, ms, c, templateKey, lang) ==
    LET first    == ConfigGetMessageTemplateTranslation(cs, ms, c, templateKey, lang)
        second   == ConfigGetMessageTemplateTranslation(
                        cs, ms, c, templateKey, cs[c].DefaultLanguage)
        template == ConfigGetMessageTemplate(cs, ms, c, templateKey)
    IN  IF first.found THEN first.text
        ELSE IF second.found THEN second.text
        ELSE IF template # NotFound THEN template.Template
        ELSE templateKey

(***************************************************************************)
(* NewAsyncConfigManager                                                   *)
(***************************************************************************)
Init ==
    /\ world \in [Sources -> Documents \cup {Unreadable}]
    /\ configs = <<>>
    /\ maps = <<>>
    /\ source = SrcA
    /\ config = NIL
    /\ interval = 1
    /\ callbacks = <<>>
    /\ isRunning = FALSE
    /\ lastError = NoError
    /\ ctxDone = FALSE
    /\ mu = Unlocked
    /\ pc = [t \in Tasks |-> "idle"]
    /\ tick = [l \in Loops |-> FALSE]
    /\ ticker = [l \in Loops |-> 0]
    /\ lsrc = [t \in Tasks |-> [Method |-> "", Path |-> ""]]
    /\ newConfig = [t \in Tasks |-> NIL]
    /\ oldConfig = [t \in Tasks |-> NIL]
    /\ lerr = [t \in Tasks |-> NoError]
    /\ cbs = [t \in Tasks |-> <<>>]
    /\ idx = [t \in Tasks |-> 0]
    /\ ret = [op |-> "none", val |-> [none |-> TRUE]]
    /\ addedInFlight = {}
    /\ outcome = [f \in Forcers |-> NoError]
    /\ removed = {}

(***************************************************************************)
(* Start                                                                   *)
(***************************************************************************)
FreeLoops == {l \in Loops : pc[l] \in {"idle", "terminated"}}
FreeLoop  == CHOOSE l \in FreeLoops : \A m \in FreeLoops : l[2] <= m[2]

StartError(src) == [msg |-> "failed to load initial config", src |-> src]

\* Start on a running manager: the guard of line 41.
StartAlreadyRunning ==
    /\ mu = Unlocked
    /\ isRunning
    /\ ret' = [op |-> "Start", val |-> ErrAlreadyRunning]
    /\ UNCHANGED <<world, heap, mgr, pc, loopv, locs, hist>>


\* Variant: the failed initial load is also recorded in acm.lastError.
StartLoadFailsRecorded ==
    /\ mu = Unlocked
    /\ ~isRunning
    /\ ~LoadOk(source)
    /\ ret' = [op |-> "Start", val |-> StartError(source)]
    /\ lastError' = StartError(source)
    /\ UNCHANGED <<world, heap, source, config, interval, callbacks,
                   isRunning, ctxDone, mu, pc, loopv, locs, hist>>

\* Variant: a failed initial load discards the snapshot held so far.
StartLoadFailsDropsSnapshot ==
    /\ mu = Unlocked
    /\ ~isRunning
    /\ ~LoadOk(source)
    /\ ret' = [op |-> "Start", val |-> StartError(source)]
    /\ config' = NIL
    /\ UNCHANGED <<world, heap, source, interval, callbacks, isRunning,
                   lastError, ctxDone, mu, pc, loopv, locs, hist>>

\* Start whose initial LoadConfig fails.
StartLoadFails ==
    /\ mu = Unlocked
    /\ ~isRunning
    /\ ~LoadOk(source)
    /\ ret' = [op |-> "Start", val |-> StartError(source)]
    /\ UNCHANGED <<world, heap, mgr, pc, loopv, locs, hist>>


\* Variant: the already-running guard is missing.
StartOkUnguarded ==
    /\ mu = Unlocked
    /\ LoadOk(source)
    /\ Len(configs) < MaxSnapshots
    /\ FreeLoops # {}
    /\ configs' = Append(configs, LoadedConfig(source))
    /\ config' = Len(configs) + 1
    /\ isRunning' = TRUE
    /\ pc' = [pc EXCEPT ![FreeLoop] = "spawned"]
    /\ ret' = [op |-> "Start", val |-> NoError]
    /\ UNCHANGED <<world, maps, source, interval, callbacks, lastError,
                   ctxDone, mu, loopv, locs, hist>>

\* Variant: a restart keeps the snapshot it already has.
StartOkKeepsSnapshot ==
    /\ mu = Unlocked
    /\ ~isRunning
    /\ LoadOk(source)
    /\ Len(configs) < MaxSnapshots
    /\ FreeLoops # {}
    /\ configs' = Append(configs, LoadedConfig(source))
    /\ config' = IF config = NIL THEN Len(configs) + 1 ELSE config
    /\ isRunning' = TRUE
    /\ pc' = [pc EXCEPT ![FreeLoop] = "spawned"]
    /\ ret' = [op |-> "Start", val |-> NoError]
    /\ UNCHANGED <<world, maps, source, interval, callbacks, lastError,
                   ctxDone, mu, loopv, locs, hist>>

\* Variant: the initial load is announced to the callbacks by the new loop.
StartOkNotifies ==
    /\ mu = Unlocked
    /\ ~isRunning
    /\ LoadOk(source)
    /\ Len(configs) < MaxSnapshots
    /\ FreeLoops # {}
    /\ configs' = Append(configs, LoadedConfig(source))
    /\ config' = Len(configs) + 1
    /\ isRunning' = TRUE
    /\ pc' = [pc EXCEPT ![FreeLoop] = "fanout"]
    /\ oldConfig' = [oldConfig EXCEPT ![FreeLoop] = config]
    /\ newConfig' = [newConfig EXCEPT ![FreeLoop] = Len(configs) + 1]
    /\ cbs' = [cbs EXCEPT ![FreeLoop] = callbacks]
    /\ idx' = [idx EXCEPT ![FreeLoop] = 1]
    /\ ret' = [op |-> "Start", val |-> NoError]
    /\ UNCHANGED <<world, maps, source, interval, callbacks, lastError,
                   ctxDone, mu, loopv, lsrc, lerr, hist>>

\* Start whose initial LoadConfig succeeds: install, run, go refreshLoop().
StartOk ==
    /\ mu = Unlocked
    /\ ~isRunning
    /\ LoadOk(source)
    /\ Len(configs) < MaxSnapshots
    /\ FreeLoops # {}
    /\ configs' = Append(configs, LoadedConfig(source))
    /\ config' = Len(configs) + 1
    /\ isRunning' = TRUE
    /\ pc' = [pc EXCEPT ![FreeLoop] = "spawned"]
    /\ ret' = [op |-> "Start", val |-> NoError]
    /\ UNCHANGED <<world, maps, source, interval, callbacks, lastError,
                   ctxDone, mu, loopv, locs, hist>>

Start == StartAlreadyRunning \/ StartLoadFails \/ StartOk

(***************************************************************************)
(* Stop                                                                    *)
(***************************************************************************)
StopNotRunning ==
    /\ mu = Unlocked
    /\ ~isRunning
    /\ UNCHANGED vars


\* Variant: Stop also clears acm.lastError.
StopRunningClearsError ==
    /\ mu = Unlocked
    /\ isRunning
    /\ ctxDone' = TRUE
    /\ isRunning' = FALSE
    /\ lastError' = NoError
    /\ UNCHANGED <<world, heap, source, config, interval, callbacks,
                   mu, pc, loopv, locs, ret, hist>>

StopRunning ==
    /\ mu = Unlocked
    /\ isRunning
    /\ ctxDone' = TRUE
    /\ isRunning' = FALSE
    /\ UNCHANGED <<world, heap, source, config, interval, callbacks, lastError,
                   mu, pc, loopv, locs, ret, hist>>

Stop == StopNotRunning \/ StopRunning

(***************************************************************************)
(* refreshLoop                                                             *)
(***************************************************************************)
\* time.NewTicker(acm.interval): the interval is read once, without the lock.
refreshLoopNewTicker(l) ==
    /\ pc[l] = "spawned"
    /\ ticker' = [ticker EXCEPT ![l] = interval]
    /\ tick' = [tick EXCEPT ![l] = FALSE]
    /\ pc' = [pc EXCEPT ![l] = "waiting"]
    /\ UNCHANGED <<world, heap, mgr, locs, ret, hist>>

\* The ticker delivers a tick into ticker.C (capacity 1; dropped when full).
Tick(l) ==
    /\ pc[l] \notin {"idle", "spawned", "terminated"}
    /\ ~tick[l]
    /\ tick' = [tick EXCEPT ![l] = TRUE]
    /\ UNCHANGED <<world, heap, mgr, pc, ticker, locs, ret, hist>>


\* Variant: cancellation is also observed in the middle of refreshConfig.
refreshLoopDoneAnywhere(l) ==
    /\ pc[l] \in {"waiting", "load", "commit", "fanout"}
    /\ ctxDone
    /\ pc' = [pc EXCEPT ![l] = "terminated"]
    /\ tick' = [tick EXCEPT ![l] = FALSE]
    /\ ticker' = [ticker EXCEPT ![l] = 0]
    /\ UNCHANGED <<world, heap, mgr, locs, ret, hist>>

\* select: case <-acm.ctx.Done(): return (with the deferred ticker.Stop()).
refreshLoopDone(l) ==
    /\ pc[l] = "waiting"
    /\ ctxDone
    /\ pc' = [pc EXCEPT ![l] = "terminated"]
    /\ tick' = [tick EXCEPT ![l] = FALSE]
    /\ ticker' = [ticker EXCEPT ![l] = 0]
    /\ UNCHANGED <<world, heap, mgr, locs, ret, hist>>

\* First half of evaluating the argument of LoadConfig(acm.source): the
\* struct is copied field by field with no lock held.
ReadSourceMethod(t) ==
    lsrc' = [lsrc EXCEPT ![t] = [Method |-> source.Method, Path |-> ""]]

\* select: case <-ticker.C: acm.refreshConfig().  When the context is done
\* too, select picks either ready case.
refreshLoopTick(l) ==
    /\ pc[l] = "waiting"
    /\ tick[l]
    /\ tick' = [tick EXCEPT ![l] = FALSE]
    /\ ReadSourceMethod(l)
    /\ pc' = [pc EXCEPT ![l] = "load"]
    /\ UNCHANGED <<world, heap, mgr, ticker, newConfig, oldConfig, lerr, cbs,
                   idx, ret, hist>>

(***************************************************************************)
(* ForceRefresh                                                            *)
(***************************************************************************)
\* Variant: a forced refresh drains the pending ticks of the refresh loops.
ForceRefreshCallResetsTicker(f) ==
    /\ pc[f] = "idle"
    /\ ReadSourceMethod(f)
    /\ pc' = [pc EXCEPT ![f] = "load"]
    /\ tick' = [l \in Loops |-> FALSE]
    /\ UNCHANGED <<world, heap, mgr, ticker, newConfig, oldConfig, lerr, cbs,
                   idx, ret, hist>>

ForceRefreshCall(f) ==
    /\ pc[f] = "idle"
    /\ ReadSourceMethod(f)
    /\ pc' = [pc EXCEPT ![f] = "load"]
    /\ UNCHANGED <<world, heap, mgr, loopv, newConfig, oldConfig, lerr, cbs,
                   idx, ret, hist>>

\* return acm.GetLastError()
ForceRefreshReturn(f) ==
    /\ pc[f] = "getErr"
    /\ mu = Unlocked
    /\ ret' = [op |-> "ForceRefresh", val |-> lastError]
    /\ pc' = [pc EXCEPT ![f] = "idle"]
    /\ outcome' = [outcome EXCEPT ![f] = NoError]
    /\ UNCHANGED <<world, heap, mgr, loopv, locs, addedInFlight, removed>>

(***************************************************************************)
(* refreshConfig                                                           *)
(***************************************************************************)
AfterRefresh(t) == IF t \in Loops THEN "waiting" ELSE "getErr"

ClearLocals(t) ==
    /\ lsrc' = [lsrc EXCEPT ![t] = [Method |-> "", Path |-> ""]]
    /\ newConfig' = [newConfig EXCEPT ![t] = NIL]
    /\ oldConfig' = [oldConfig EXCEPT ![t] = NIL]
    /\ lerr' = [lerr EXCEPT ![t] = NoError]
    /\ cbs' = [cbs EXCEPT ![t] = <<>>]
    /\ idx' = [idx EXCEPT ![t] = 0]
    /\ addedInFlight' = addedInFlight \ {t}
    /\ outcome' = IF t \in Forcers THEN [outcome EXCEPT ![t] = lerr[t]]
                  ELSE outcome
    /\ UNCHANGED removed

\* Variant: every refresh loads the source the manager was constructed with.
LoadSourceAtConstruction(t) == SrcA

\* The argument LoadConfig gets: acm.source as the two unlocked reads saw it.
LoadSource(t) == [Method |-> lsrc[t].Method, Path |-> source.Path]

\* newConfig, err := LoadConfig(acm.source), load succeeds
refreshLoadOk(t) ==
    /\ pc[t] = "load"
    /\ LoadOk(LoadSource(t))
    /\ Len(configs) < MaxSnapshots
    /\ lsrc' = [lsrc EXCEPT ![t] = LoadSource(t)]
    /\ configs' = Append(configs, LoadedConfig(LoadSource(t)))
    /\ newConfig' = [newConfig EXCEPT ![t] = Len(configs) + 1]
    /\ pc' = [pc EXCEPT ![t] = "commit"]
    /\ UNCHANGED <<world, maps, mgr, loopv, oldConfig, lerr, cbs, idx, ret,
                   hist>>

\* newConfig, err := LoadConfig(acm.source), load fails
refreshLoadFails(t) ==
    /\ pc[t] = "load"
    /\ ~LoadOk(LoadSource(t))
    /\ lsrc' = [lsrc EXCEPT ![t] = LoadSource(t)]
    /\ lerr' = [lerr EXCEPT ![t] = LoadError(LoadSource(t))]
    /\ pc' = [pc EXCEPT ![t] = "commit"]
    /\ UNCHANGED <<world, heap, mgr, loopv, newConfig, oldConfig, cbs, idx,
                   ret, hist>>

\* Variant: a failed load is reported to the callbacks too.
refreshRecordErrorNotifies(t) ==
    /\ pc[t] = "commit"
    /\ lerr[t] # NoError
    /\ mu = Unlocked
    /\ lastError' = lerr[t]
    /\ oldConfig' = [oldConfig EXCEPT ![t] = config]
    /\ cbs' = [cbs EXCEPT ![t] = callbacks]
    /\ idx' = [idx EXCEPT ![t] = 1]
    /\ pc' = [pc EXCEPT ![t] = "fanout"]
    /\ UNCHANGED <<world, heap, source, config, interval, callbacks,
                   isRunning, ctxDone, mu, loopv, lsrc, newConfig, lerr, ret,
                   hist>>

\* Variant: a refresh loop gives up after a failed load.
refreshRecordErrorStopsLoop(t) ==
    /\ pc[t] = "commit"
    /\ lerr[t] # NoError
    /\ mu = Unlocked
    /\ lastError' = lerr[t]
    /\ pc' = [pc EXCEPT ![t] = IF t \in Loops THEN "terminated" ELSE "getErr"]
    /\ ClearLocals(t)
    /\ UNCHANGED <<world, heap, source, config, interval, callbacks,
                   isRunning, ctxDone, mu, loopv, ret>>

\* if err != nil { Lock; acm.lastError = err; Unlock; return }
refreshRecordError(t) ==
    /\ pc[t] = "commit"
    /\ lerr[t] # NoError
    /\ mu = Unlocked
    /\ lastError' = lerr[t]
    /\ pc' = [pc EXCEPT ![t] = AfterRefresh(t)]
    /\ ClearLocals(t)
    /\ UNCHANGED <<world, heap, source, config, interval, callbacks,
                   isRunning, ctxDone, mu, loopv, ret>>


\* Variant: the manual tier is not carried over.
InheritNothing(cs, new, old) == cs

\* newConfig.ManualMessageTemplates = oldConfig.ManualMessageTemplates
InheritManual(cs, new, old) ==
    [cs EXCEPT ![new].ManualMessageTemplates = cs[old].ManualMessageTemplates]


\* Variant: the new snapshot is published without its manual tier.
refreshInstallPublishFirst(t) ==
    /\ pc[t] = "commit"
    /\ lerr[t] = NoError
    /\ mu = Unlocked
    /\ config # NIL
    /\ oldConfig' = [oldConfig EXCEPT ![t] = config]
    /\ config' = newConfig[t]
    /\ lastError' = NoError
    /\ cbs' = [cbs EXCEPT ![t] = callbacks]
    /\ idx' = [idx EXCEPT ![t] = 1]
    /\ pc' = [pc EXCEPT ![t] = "fanout"]
    /\ UNCHANGED <<world, heap, source, interval, callbacks, isRunning,
                   ctxDone, mu, loopv, lsrc, newConfig, lerr, ret,
                   hist>>

\* Variant: the callbacks get the new snapshot as the old one too.
refreshInstallOldIsNew(t) ==
    /\ pc[t] = "commit"
    /\ lerr[t] = NoError
    /\ mu = Unlocked
    /\ config # NIL
    /\ oldConfig' = [oldConfig EXCEPT ![t] = newConfig[t]]
    /\ configs' = InheritManual(configs, newConfig[t], config)
    /\ config' = newConfig[t]
    /\ lastError' = NoError
    /\ cbs' = [cbs EXCEPT ![t] = callbacks]
    /\ idx' = [idx EXCEPT ![t] = 1]
    /\ pc' = [pc EXCEPT ![t] = "fanout"]
    /\ UNCHANGED <<world, maps, source, interval, callbacks, isRunning,
                   ctxDone, mu, loopv, lsrc, newConfig, lerr, ret, hist>>

\* Variant: the fan-out runs inside the critical section (the lock is still
\* held while the callbacks are called).
refreshInstallHoldsLock(t) ==
    /\ pc[t] = "commit"
    /\ lerr[t] = NoError
    /\ mu = Unlocked
    /\ config # NIL
    /\ mu' = t
    /\ oldConfig' = [oldConfig EXCEPT ![t] = config]
    /\ configs' = InheritManual(configs, newConfig[t], config)
    /\ config' = newConfig[t]
    /\ lastError' = NoError
    /\ cbs' = [cbs EXCEPT ![t] = callbacks]
    /\ idx' = [idx EXCEPT ![t] = 1]
    /\ pc' = [pc EXCEPT ![t] = "fanout"]
    /\ UNCHANGED <<world, maps, source, interval, callbacks, isRunning,
                   ctxDone, loopv, lsrc, newConfig, lerr, ret, hist>>

\* The critical section of lines 98-104 when acm.config is not nil.
refreshInstall(t) ==
    /\ pc[t] = "commit"
    /\ lerr[t] = NoError
    /\ mu = Unlocked
    /\ config # NIL
    /\ oldConfig' = [oldConfig EXCEPT ![t] = config]
    /\ configs' = InheritManual(configs, newConfig[t], config)
    /\ config' = newConfig[t]
    /\ lastError' = NoError
    /\ cbs' = [cbs EXCEPT ![t] = callbacks]
    /\ idx' = [idx EXCEPT ![t] = 1]
    /\ pc' = [pc EXCEPT ![t] = "fanout"]
    /\ UNCHANGED <<world, maps, source, interval, callbacks, isRunning,
                   ctxDone, mu, loopv, lsrc, newConfig, lerr, ret, hist>>

\* The same critical section when acm.config is nil: oldConfig is nil and
\* line 100 dereferences it; the panic leaves acm.mu locked (no defer).
refreshNilDeref(t) ==
    /\ pc[t] = "commit"
    /\ lerr[t] = NoError
    /\ mu = Unlocked
    /\ config = NIL
    /\ mu' = t
    /\ pc' = [pc EXCEPT ![t] = "panicked"]
    /\ UNCHANGED <<world, heap, source, config, interval, callbacks,
                   isRunning, lastError, ctxDone, loopv, locs, ret, hist>>

\* The call the range loop makes next: callback(oldConfig, newConfig).
Invocation(t) ==
    [cb |-> cbs[t][idx[t]], old |-> oldConfig[t], new |-> newConfig[t]]

\* Variant: the fan-out ranges over the manager's live callback list.
refreshCallbackRangesOverLive(t) ==
    /\ pc[t] = "fanout"
    /\ idx[t] <= Len(cbs[t])
    /\ cbs' = [cbs EXCEPT ![t] = callbacks]
    /\ idx' = [idx EXCEPT ![t] = idx[t] + 1]
    /\ UNCHANGED <<world, heap, mgr, pc, loopv, lsrc, newConfig, oldConfig,
                   lerr, ret, hist>>

\* for _, callback := range callbacks { callback(oldConfig, newConfig) }
\* One step is one whole call: the callback runs on the refreshing task.
refreshCallback(t) ==
    /\ pc[t] = "fanout"
    /\ idx[t] <= Len(cbs[t])
    /\ idx' = [idx EXCEPT ![t] = idx[t] + 1]
    /\ UNCHANGED <<world, heap, mgr, pc, loopv, lsrc, newConfig, oldConfig,
                   lerr, cbs, ret, hist>>

refreshReturn(t) ==
    /\ pc[t] = "fanout"
    /\ idx[t] > Len(cbs[t])
    /\ pc' = [pc EXCEPT ![t] = AfterRefresh(t)]
    /\ ClearLocals(t)
    /\ UNCHANGED <<world, heap, mgr, loopv, ret>>

refreshConfig(t) ==
    \/ refreshLoadOk(t)
    \/ refreshLoadFails(t)
    \/ refreshRecordError(t)
    \/ refreshInstall(t)
    \/ refreshNilDeref(t)
    \/ refreshCallback(t)
    \/ refreshReturn(t)

\* refreshConfig as the refresh loop runs it: the loop exists only after
\* Start has installed a snapshot, so oldConfig is never nil there.
refreshConfigStarted(l) ==
    \/ refreshLoadOk(l)
    \/ refreshLoadFails(l)
    \/ refreshRecordError(l)
    \/ refreshInstall(l)
    \/ refreshCallback(l)
    \/ refreshReturn(l)

(***************************************************************************)
(* Read accessors                                                          *)
(***************************************************************************)
GetConfig ==
    /\ mu = Unlocked
    /\ ret' = [op |-> "GetConfig", val |-> [config |-> config]]
    /\ UNCHANGED <<world, heap, mgr, pc, loopv, locs, hist>>

\* (acm) GetMessageTemplate(key), as seen by a caller that gets the lock
GetMessageTemplate(key) ==
    IF config = NIL THEN NotFound
    ELSE ConfigGetMessageTemplate(configs, maps, config, key)

\* A call of (acm) GetMessageTemplate(key) and what it returned.
GetMessageTemplateCall(key) ==
    /\ mu = Unlocked
    /\ ret' = [op |-> "GetMessageTemplate",
               val |-> [key |-> key, template |-> GetMessageTemplate(key)]]
    /\ UNCHANGED <<world, heap, mgr, pc, loopv, locs, hist>>

\* (acm) GetTranslation(lang, key)
GetTranslation(lang, key) ==
    IF config = NIL THEN Missing
    ELSE ConfigGetTranslation(configs, config, lang, key)

\* Variant: without a snapshot the result is empty, as in the synchronous
\* ConfigManager.
GetTranslationWithFallbackEmpty(lang, key) ==
    IF config = NIL THEN ""
    ELSE ConfigGetTranslationWithFallback(configs, config, lang, key)

\* (acm) GetTranslationWithFallback(lang, key)
GetTranslationWithFallback(lang, key) ==
    IF config = NIL THEN key
    ELSE ConfigGetTranslationWithFallback(configs, config, lang, key)

\* (acm) GetSupportedLanguages()
GetSupportedLanguages ==
    IF config = NIL THEN <<>> ELSE configs[config].Languages

\* (acm) GetDefaultLanguage()
GetDefaultLanguage ==
    IF config = NIL THEN "" ELSE configs[config].DefaultLanguage

\* (acm) GetMessageTemplateTranslation(templateKey, lang)
GetMessageTemplateTranslation(templateKey, lang) ==
    IF config = NIL THEN Missing
    ELSE ConfigGetMessageTemplateTranslation(configs, maps, config,
                                             templateKey, lang)

\* (acm) GetMessageTemplateTranslationWithFallback(templateKey, lang)
GetMessageTemplateTranslationWithFallback(templateKey, lang) ==
    IF config = NIL THEN templateKey
    ELSE ConfigGetMessageTemplateTranslationWithFallback(configs, maps, config,
                                                         templateKey, lang)

\* A read accessor takes the read lock and returns val.
Returns(op, val) ==
    /\ mu = Unlocked
    /\ ret' = [op |-> op, val |-> val]
    /\ UNCHANGED <<world, heap, mgr, pc, loopv, locs, hist>>

GetTranslationCall(lang, key) ==
    Returns("GetTranslation",
            [lang |-> lang, key |-> key, result |-> GetTranslation(lang, key)])

GetTranslationWithFallbackCall(lang, key) ==
    Returns("GetTranslationWithFallback",
            [lang |-> lang, key |-> key,
             result |-> [text |-> GetTranslationWithFallback(lang, key)]])

GetSupportedLanguagesCall ==
    Returns("GetSupportedLanguages", [result |-> GetSupportedLanguages])

GetDefaultLanguageCall ==
    Returns("GetDefaultLanguage", [result |-> [text |-> GetDefaultLanguage]])

GetMessageTemplateTranslationCall(templateKey, lang) ==
    Returns("GetMessageTemplateTranslation",
            [lang |-> lang, key |-> templateKey,
             result |-> GetMessageTemplateTranslation(templateKey, lang)])

GetMessageTemplateTranslationWithFallbackCall(templateKey, lang) ==
    Returns("GetMessageTemplateTranslationWithFallback",
            [lang |-> lang, key |-> templateKey,
             result |-> [text |-> GetMessageTemplateTranslationWithFallback(
                                      templateKey, lang)]])

(***************************************************************************)
(* Manual template mutation                                                *)
(***************************************************************************)
\* The tasks inside refreshConfig that have not reached the critical section.
InFlight == {t \in Tasks : pc[t] \in {"load", "commit"}}

\* The critical section of each mutator; a mutator returns nothing.
AddMessageTemplateBody(t) ==
    /\ mu = Unlocked
    /\ IF config = NIL
       THEN UNCHANGED <<heap, addedInFlight>>
       ELSE /\ configs' = ConfigAddMessageTemplate(configs, maps, config, t)[1]
            /\ maps' = ConfigAddMessageTemplate(configs, maps, config, t)[2]
            /\ addedInFlight' = addedInFlight \cup InFlight
    /\ UNCHANGED <<world, mgr, pc, loopv, locs, outcome, removed>>

AddMessageTemplatesBody(ts) ==
    /\ mu = Unlocked
    /\ IF config = NIL
       THEN UNCHANGED <<heap, addedInFlight>>
       ELSE /\ configs' = ConfigAddMessageTemplates(configs, maps, config, ts)[1]
            /\ maps' = ConfigAddMessageTemplates(configs, maps, config, ts)[2]
            /\ addedInFlight' = addedInFlight \cup InFlight
    /\ UNCHANGED <<world, mgr, pc, loopv, locs, outcome, removed>>

UpdateMessageTemplateBody(t) ==
    /\ mu = Unlocked
    /\ IF config = NIL
       THEN UNCHANGED <<heap, addedInFlight>>
       ELSE /\ configs' = ConfigAddMessageTemplate(configs, maps, config, t)[1]
            /\ maps' = ConfigAddMessageTemplate(configs, maps, config, t)[2]
            /\ addedInFlight' = addedInFlight \cup InFlight
    /\ UNCHANGED <<world, mgr, pc, loopv, locs, outcome, removed>>

RemoveMessageTemplateBody(key) ==
    /\ mu = Unlocked
    /\ UNCHANGED hist
    /\ IF config = NIL
       THEN UNCHANGED heap
       ELSE /\ configs' = ConfigRemoveMessageTemplate(configs, maps, config, key)[1]
            /\ maps' = ConfigRemoveMessageTemplate(configs, maps, config, key)[2]
    /\ UNCHANGED <<world, mgr, pc, loopv, locs>>

AddMessageTemplate(t) == AddMessageTemplateBody(t) /\ UNCHANGED ret

AddMessageTemplates(ts) == AddMessageTemplatesBody(ts) /\ UNCHANGED ret

UpdateMessageTemplate(t) == UpdateMessageTemplateBody(t) /\ UNCHANGED ret

RemoveMessageTemplate(key) == RemoveMessageTemplateBody(key) /\ UNCHANGED ret

\* The same calls, with the fact that the call has returned on record.
AddMessageTemplateCall(t) ==
    /\ AddMessageTemplateBody(t)
    /\ ret' = [op |-> "AddMessageTemplate", val |-> [template |-> t]]

AddMessageTemplatesCall(ts) ==
    /\ AddMessageTemplatesBody(ts)
    /\ ret' = [op |-> "AddMessageTemplates", val |-> [templates |-> ts]]

UpdateMessageTemplateCall(t) ==
    /\ UpdateMessageTemplateBody(t)
    /\ ret' = [op |-> "UpdateMessageTemplate", val |-> [template |-> t]]

RemoveMessageTemplateCall(key) ==
    /\ RemoveMessageTemplateBody(key)
    /\ ret' = [op |-> "RemoveMessageTemplate", val |-> [key |-> key]]

(***************************************************************************)
(* Callbacks, source, interval                                             *)
(***************************************************************************)
AddCallback(cb) ==
    /\ mu = Unlocked
    /\ Len(callbacks) < MaxCallbacks
    /\ callbacks' = Append(callbacks, cb)
    /\ removed' = removed \ {cb}
    /\ UNCHANGED <<world, heap, source, config, interval, isRunning,
                   lastError, ctxDone, mu, pc, loopv, locs, ret, addedInFlight,
                   outcome>>

\* Variant: the callback slice is left as it is.
RemoveAllCallbacksKeepsList ==
    /\ mu = Unlocked
    /\ removed' = removed \cup {callbacks[i] : i \in DOMAIN callbacks}
    /\ UNCHANGED <<world, heap, mgr, pc, loopv, locs, ret, addedInFlight,
                   outcome>>

RemoveAllCallbacks ==
    /\ mu = Unlocked
    /\ callbacks' = <<>>
    /\ removed' = removed \cup {callbacks[i] : i \in DOMAIN callbacks}
    /\ UNCHANGED <<world, heap, source, config, interval, isRunning,
                   lastError, ctxDone, mu, pc, loopv, locs, ret, addedInFlight,
                   outcome>>

UpdateSource(newSource) ==
    /\ mu = Unlocked
    /\ source' = newSource
    /\ UNCHANGED <<world, heap, config, interval, callbacks, isRunning,
                   lastError, ctxDone, mu, pc, loopv, locs, ret, hist>>

UpdateInterval(newInterval) ==
    /\ mu = Unlocked
    /\ interval' = newInterval
    /\ UNCHANGED <<world, heap, source, config, callbacks, isRunning,
                   lastError, ctxDone, mu, pc, loopv, locs, ret, hist>>

(***************************************************************************)
(* Environment: the content behind a source changes.                       *)
(***************************************************************************)
ChangeWorld(s, d) ==
    /\ world[s] # d
    /\ world' = [world EXCEPT ![s] = d]
    /\ UNCHANGED <<heap, mgr, pc, loopv, locs, ret, hist>>

Next ==
    \/ Start
    \/ Stop
    \/ \E l \in Loops : refreshLoopNewTicker(l)
    \/ \E l \in Loops : Tick(l)
    \/ \E l \in Loops : refreshLoopDone(l)
    \/ \E l \in Loops : refreshLoopTick(l)
    \/ \E f \in Forcers : ForceRefreshCall(f)
    \/ \E f \in Forcers : ForceRefreshReturn(f)
    \/ \E t \in Tasks : refreshConfig(t)
    \/ GetConfig
    \/ \E k \in Keys : GetMessageTemplateCall(k)
    \/ \E l \in {"en", "fr"}, k \in Keys : GetTranslationCall(l, k)
    \/ \E l \in {"en", "fr"}, k \in Keys : GetTranslationWithFallbackCall(l, k)
    \/ GetSupportedLanguagesCall
    \/ GetDefaultLanguageCall
    \/ \E k \in Keys, l \in {"en", "fr"} : GetMessageTemplateTranslationCall(k, l)
    \/ \E k \in Keys, l \in {"en", "fr"} :
          GetMessageTemplateTranslationWithFallbackCall(k, l)
    \/ \E t \in ManualTemplates : AddMessageTemplate(t)
    \/ \E t1, t2 \in ManualTemplates : AddMessageTemplates(<<t1, t2>>)
    \/ \E t \in ManualTemplates : UpdateMessageTemplate(t)
    \/ \E k \in Keys : RemoveMessageTemplate(k)
    \/ \E cb \in Callbacks : AddCallback(cb)
    \/ RemoveAllCallbacks
    \/ \E s \in Sources : UpdateSource(s)
    \/ \E d \in Intervals : UpdateInterval(d)
    \/ \E s \in Sources, d \in Documents \cup {Unreadable} : ChangeWorld(s, d)

Spec == Init /\ [][Next]_vars

(***************************************************************************)
(* Lifecycle: Start, Stop and the refresh loop over one source.            *)
(***************************************************************************)
LifecycleInit == Init /\ world[SrcB] = Unreadable

LifecycleNext ==
    \/ Start
    \/ Stop
    \/ \E l \in Loops : refreshLoopNewTicker(l)
    \/ \E l \in Loops : Tick(l)
    \/ \E l \in Loops : refreshLoopDone(l)
    \/ \E l \in Loops : refreshLoopTick(l)
    \/ \E l \in Loops : refreshConfigStarted(l)
    \/ AddCallback("cbA")
    \/ \E d \in Documents \cup {Unreadable} : ChangeWorld(SrcA, d)

LifecycleSpec == LifecycleInit /\ [][LifecycleNext]_vars

(***************************************************************************)
(* Refresh: timer-driven and forced refreshes against readers and manual   *)
(* template mutations, on a manager that is started at most once.          *)
(***************************************************************************)
Hello1 == [Key |-> "welcome", Template |-> "HELLO 1"]

RefreshInit == Init /\ world[SrcB] = Unreadable /\ world[SrcA] # DocV2

RefreshNext ==
    \/ Start
    \/ \E l \in Loops : refreshLoopNewTicker(l)
    \/ \E l \in Loops : Tick(l)
    \/ \E l \in Loops : refreshLoopTick(l)
    \/ \E f \in Forcers : ForceRefreshCall(f)
    \/ \E f \in Forcers : ForceRefreshReturn(f)
    \/ \E t \in Tasks : refreshConfig(t)
    \/ GetConfig
    \/ AddMessageTemplate(Hello1)
    \/ \E k \in Keys : RemoveMessageTemplate(k)
    \/ AddCallback("cbA")
    \/ \E d \in {DocV1, Unreadable} : ChangeWorld(SrcA, d)

RefreshSpec == RefreshInit /\ [][RefreshNext]_vars

(***************************************************************************)
(* Template store: the two tiers of the current snapshot under the manual  *)
(* mutators, the resolver and restarts that replace the loaded tier.       *)
(***************************************************************************)
Hello2 == [Key |-> "welcome", Template |-> "HELLO 2"]
Bye1   == [Key |-> "bye", Template |-> "BYE 1"]
TemplateKeys == {"welcome", "bye"}
DocNone == EmptyMap                     \* a document without message_templates

TemplateInit == Init /\ world[SrcB] = Unreadable /\ world[SrcA] # DocV2

TemplateNext ==
    \/ Start
    \/ Stop
    \/ \E k \in TemplateKeys : GetMessageTemplateCall(k)
    \/ \E t \in {Hello1, Bye1} : AddMessageTemplate(t)
    \/ AddMessageTemplates(<<Hello1, Hello2>>)
    \/ UpdateMessageTemplate(Hello2)
    \/ \E k \in TemplateKeys : RemoveMessageTemplate(k)
    \/ \E d \in {DocV1, DocNone, Unreadable} : ChangeWorld(SrcA, d)

TemplateSpec == TemplateInit /\ [][TemplateNext]_vars

(***************************************************************************)
(* Callbacks: registration and removal against timer-driven and forced     *)
(* refreshes, on a manager that is started at most once.                   *)
(***************************************************************************)
CallbackInit == Init /\ world[SrcB] = Unreadable /\ world[SrcA] # DocV2

\* Callbacks are told apart by the order in which they are registered.
CallbackOrder == <<"cbA", "cbB">>

CallbackNext ==
    \/ Start
    \/ \E l \in Loops : refreshLoopNewTicker(l)
    \/ \E l \in Loops : Tick(l)
    \/ \E l \in Loops : refreshLoopTick(l)
    \/ \E f \in Forcers : ForceRefreshCall(f)
    \/ \E f \in Forcers : ForceRefreshReturn(f)
    \/ \E t \in Tasks : refreshConfig(t)
    \/ GetConfig
    \/ \E i \in DOMAIN CallbackOrder :
          Len(callbacks) = i - 1 /\ AddCallback(CallbackOrder[i])
    \/ RemoveAllCallbacks
    \/ \E d \in {DocV1, Unreadable} : ChangeWorld(SrcA, d)

CallbackSpec == CallbackInit /\ [][CallbackNext]_vars

(***************************************************************************)
(* Operations: every call that is not a refresh, against forced refreshes, *)
(* with the refresh loop goroutine not yet scheduled.                      *)
(***************************************************************************)
OperationsInit == Init /\ world[SrcA] = DocV1 /\ world[SrcB] = Unreadable

\* The calls of the manager that are no refresh.
Operation ==
    \/ Start
    \/ Stop
    \/ \E t \in ManualTemplates : AddMessageTemplate(t)
    \/ \E t1, t2 \in ManualTemplates : AddMessageTemplates(<<t1, t2>>)
    \/ \E t \in ManualTemplates : UpdateMessageTemplate(t)
    \/ \E k \in Keys : RemoveMessageTemplate(k)
    \/ \E s \in Sources : UpdateSource(s)
    \/ \E d \in Intervals : UpdateInterval(d)
    \/ \E cb \in Callbacks : AddCallback(cb)

OperationsNext ==
    \/ Start
    \/ Stop
    \/ \E f \in Forcers : ForceRefreshCall(f)
    \/ \E f \in Forcers : ForceRefreshReturn(f)
    \/ \E f \in Forcers : refreshConfig(f)
    \/ AddMessageTemplate(Hello1)
    \/ AddMessageTemplates(<<Hello2, Hello1>>)
    \/ UpdateMessageTemplate(Hello1)
    \/ \E k \in Keys : RemoveMessageTemplate(k)
    \/ \E s \in Sources : UpdateSource(s)
    \/ \E d \in Intervals : UpdateInterval(d)
    \/ Len(callbacks) = 0 /\ AddCallback("cbA")

OperationsSpec == OperationsInit /\ [][OperationsNext]_vars

(***************************************************************************)
(* Forced refreshes against the lifecycle: Start, Stop, the refresh loop   *)
(* and ForceRefresh calls on a running or stopped manager.                 *)
(***************************************************************************)
ForceInit == Init /\ world[SrcB] = Unreadable /\ world[SrcA] # DocV2

\* A step of the ForceRefresh call of f.
ForceRefresh(f) ==
    ForceRefreshCall(f) \/ refreshConfig(f) \/ ForceRefreshReturn(f)

ForceNext ==
    \/ Start
    \/ Stop
    \/ \E l \in Loops : refreshLoopNewTicker(l)
    \/ \E l \in Loops : Tick(l)
    \/ \E l \in Loops : refreshLoopDone(l)
    \/ \E l \in Loops : refreshLoopTick(l)
    \/ \E l \in Loops : refreshConfigStarted(l)
    \/ \E f \in Forcers : ForceRefresh(f)
    \/ AddCallback("cbA")
    \/ \E d \in {DocV1, Unreadable} : ChangeWorld(SrcA, d)

ForceSpec == ForceInit /\ [][ForceNext]_vars

(***************************************************************************)
(* Source changes: UpdateSource against timer-driven and forced refreshes, *)
(* over two source locations whose content does not change.               *)
(***************************************************************************)
SourceInit == Init

SourceNext ==
    \/ Start
    \/ \E l \in Loops : refreshLoopNewTicker(l)
    \/ \E l \in Loops : Tick(l)
    \/ \E l \in Loops : refreshLoopTick(l)
    \/ \E l \in Loops : refreshConfigStarted(l)
    \/ \E f \in Forcers : ForceRefresh(f)
    \/ \E s \in Sources : UpdateSource(s)
    \/ Len(callbacks) = 0 /\ AddCallback("cbA")

SourceSpec == SourceInit /\ [][SourceNext]_vars

(***************************************************************************)
(* Properties                                                              *)
(***************************************************************************)
Refreshing == {"load", "commit", "fanout"}

\* The step in which task t installs the snapshot it loaded.
Installs(t) == pc[t] = "commit" /\ pc'[t] = "fanout"

\* The step in which task t starts a refresh attempt, and the step in which
\* t's LoadConfig call is made.
Attempts(t) == pc[t] \in {"idle", "waiting"} /\ pc'[t] = "load"
Loads(t) == pc[t] = "load" /\ pc'[t] = "commit"

\* The step in which task t calls one callback of its fan-out.
Invokes(t) == pc[t] = "fanout" /\ pc'[t] = "fanout" /\ idx'[t] # idx[t]

\* C1: Manual-tier durability.  Every successful refresh (timer tick or
\* ForceRefresh) keeps every manual template: a key the manual tier of the
\* current snapshot maps to T before the installation is resolved to T by
\* GetMessageTemplate right after it, also when T was added while the
\* refresh was already in progress.
C1_ManualTierSurvivesRefresh ==
    [][\A t \in Tasks : Installs(t) =>
          \A k \in DOMAIN ManualOf(configs, maps, config) :
              GetMessageTemplate(k)' = ManualOf(configs, maps, config)[k]]_vars

C1_Witness ==
    \E t \in Tasks :
        /\ pc[t] = "fanout"
        /\ config = newConfig[t]
        /\ t \in addedInFlight
        /\ GetMessageTemplate("welcome") = Hello1

\* C2: Failure isolation.  A refresh attempt whose load failed leaves the
\* current snapshot as it was and makes lastError non-nil; a refresh attempt
\* whose load succeeded leaves lastError nil.
C2_FailureIsolation ==
    [][\A t \in Tasks : (pc[t] = "commit" /\ pc'[t] # "commit") =>
          IF lerr[t] # NoError
          THEN config' = config /\ lastError' # NoError
          ELSE lastError' = NoError]_vars

\* C3: Refresh atomicity.  The snapshot a GetConfig call returned is never
\* one that a refresh has loaded but not installed, and when it is the
\* snapshot a refresh installed, it carries the manual tier of the snapshot
\* it replaced.
C3_ReadersSeeWholeSnapshots ==
    (ret.op = "GetConfig" /\ ret.val.config # NIL) =>
        \A t \in Tasks :
            newConfig[t] = ret.val.config =>
                /\ pc[t] = "fanout"
                /\ \/ configs[oldConfig[t]].ManualMessageTemplates = NIL
                   \/ configs[ret.val.config].ManualMessageTemplates
                        = configs[oldConfig[t]].ManualMessageTemplates

C3_Witness ==
    /\ ret.op = "GetConfig"
    /\ \E t \in Tasks :
        /\ pc[t] = "fanout"
        /\ ret.val.config = newConfig[t]
        /\ configs[ret.val.config].ManualMessageTemplates # NIL

\* C4: No double start.  Start on a running manager returns the
\* already-running error, loads nothing, leaves the current snapshot alone
\* and spawns no refresh loop; a Start succeeds and spawns a loop only on a
\* manager that is not running, so of two Start calls racing on a stopped
\* manager the one that gets the lock second fails this way.
C4_NoDoubleStart ==
    [][/\ (isRunning /\ Start) =>
             /\ ret' = [op |-> "Start", val |-> ErrAlreadyRunning]
             /\ UNCHANGED <<configs, maps, config, isRunning, lastError,
                            ctxDone, pc, tick, ticker>>
       /\ (Start /\ ret' = [op |-> "Start", val |-> NoError] /\ pc' # pc) =>
             ~isRunning]_vars

C4_Witness ==
    /\ ret = [op |-> "Start", val |-> ErrAlreadyRunning]
    /\ isRunning
    /\ \E l \in Loops : pc[l] \in Refreshing

\* C5: A Start whose initial load fails returns the load error and changes
\* nothing: running stays false, the snapshot (absent or left by an earlier
\* run) and lastError are untouched and no refresh loop is spawned.
C5_FailedStartChangesNothing ==
    [][(~isRunning /\ ~LoadOk(source) /\ Start) =>
          /\ ret' = [op |-> "Start", val |-> StartError(source)]
          /\ UNCHANGED <<configs, maps, config, isRunning, lastError,
                         ctxDone, pc, tick, ticker, callbacks>>]_vars

C5_Witness ==
    /\ ret = [op |-> "Start", val |-> StartError(source)]
    /\ ~isRunning
    /\ config # NIL
    /\ lastError = NoError

\* C6: While the manager is running, also after a Stop followed by a
\* successful Start, a refresh loop is alive to serve the timer ticks.
C6_LoopAliveWhileRunning ==
    isRunning => \E l \in Loops : pc[l] \notin {"idle", "terminated"}

\* C7: Start on a stopped manager that ran before loads again, installs the
\* freshly loaded snapshot as current, returns nil and leaves the manager
\* running.
C7_RestartLoadsAgain ==
    [][(~isRunning /\ ctxDone /\ LoadOk(source) /\ Start) =>
          /\ ret' = [op |-> "Start", val |-> NoError]
          /\ isRunning'
          /\ config' = Len(configs) + 1
          /\ Len(configs') = Len(configs) + 1
          /\ configs'[config'].MessageTemplates = world[source]]_vars

C7_Witness ==
    /\ ret = [op |-> "Start", val |-> NoError]
    /\ ctxDone
    /\ isRunning
    /\ config > 1

\* C8: Stop on a stopped manager changes nothing; Stop on a running manager
\* clears running and cancels the context and leaves the current snapshot,
\* lastError, source, interval and callbacks as they were.
C8_StopFrame ==
    [][Stop =>
          IF isRunning
          THEN /\ ~isRunning'
               /\ ctxDone'
               /\ UNCHANGED <<configs, maps, config, lastError, source,
                              interval, callbacks>>
          ELSE UNCHANGED vars]_vars

C8_Witness ==
    /\ ~isRunning
    /\ ctxDone
    /\ config # NIL
    /\ lastError # NoError
    /\ callbacks # <<>>

\* C9: Once the context is cancelled, a refresh loop that is waiting in its
\* select only ever leaves it by terminating: it starts no refresh attempt.
C9_WaitingLoopOnlyTerminates ==
    [][\A l \in Loops : (pc[l] = "waiting" /\ ctxDone) =>
          pc'[l] \in {"waiting", "terminated"}]_vars

\* C10: A refresh attempt that is in flight when the context is cancelled is
\* not aborted: the loop does not terminate inside it, a successful load is
\* installed as the current snapshot, and every captured callback is
\* invoked before the loop returns to its select.
C10_InFlightRefreshCompletes ==
    [][\A l \in Loops : (ctxDone /\ pc[l] \in Refreshing /\ pc'[l] # pc[l]) =>
          /\ pc'[l] # "terminated"
          /\ (pc[l] = "load") => (pc'[l] = "commit")
          /\ (pc[l] = "commit" /\ lerr[l] = NoError) =>
                (pc'[l] = "fanout" /\ config' = newConfig[l])
          /\ (pc[l] = "fanout") =>
                (pc'[l] = "waiting" /\ idx[l] > Len(cbs[l]))]_vars

C10_Witness ==
    \E l \in Loops :
        /\ ctxDone
        /\ ~isRunning
        /\ pc[l] = "fanout"
        /\ config = newConfig[l]
        /\ Len(cbs[l]) > 0
        /\ idx[l] > Len(cbs[l])

\* C11: Two-tier priority.  For every snapshot and every key K, the
\* resolver returns the manual entry when the manual tier defines K (also
\* when the loaded tier defines K too), the loaded entry when only the
\* loaded tier defines K, and not-found when neither does.
C11_ManualOverLoaded ==
    \A c \in 1..Len(configs), k \in TemplateKeys :
        LET manual == ManualOf(configs, maps, c)
            loaded == configs[c].MessageTemplates
            got    == ConfigGetMessageTemplate(configs, maps, c, k)
        IN  /\ k \in DOMAIN manual => got = manual[k]
            /\ (k \notin DOMAIN manual /\ k \in DOMAIN loaded) => got = loaded[k]
            /\ (k \notin DOMAIN manual /\ k \notin DOMAIN loaded) => got = NotFound

C11_Witness ==
    /\ config # NIL
    /\ "welcome" \in DOMAIN ManualOf(configs, maps, config)
    /\ "welcome" \in DOMAIN configs[config].MessageTemplates
    /\ ManualOf(configs, maps, config)["welcome"]
          # configs[config].MessageTemplates["welcome"]
    /\ ret = [op |-> "GetMessageTemplate",
              val |-> [key |-> "welcome",
                       template |-> ManualOf(configs, maps, config)["welcome"]]]

\* C12: Fan-out order.  A refresh calls the callbacks it captured one at a
\* time in registration order, each call complete before the next starts
\* (with A then B registered, B is called only after A's call is over), and
\* a refresh attempt whose load failed calls no callback.
C12_FanOutInRegistrationOrder ==
    [][\A t \in Tasks :
          /\ Installs(t) => (cbs'[t] = callbacks /\ idx'[t] = 1)
          /\ Invokes(t) =>
                /\ idx[t] \in DOMAIN cbs[t]
                /\ idx'[t] = idx[t] + 1
                /\ cbs'[t] = cbs[t]
          /\ (pc[t] = "commit" /\ lerr[t] # NoError /\ pc'[t] # "commit") =>
                (pc'[t] # "fanout" /\ idx'[t] = 0 /\ cbs'[t] = <<>>)]_vars

C12_Witness ==
    \E t \in Tasks :
        /\ pc[t] = "fanout"
        /\ cbs[t] = <<"cbA", "cbB">>
        /\ idx[t] = 2
        /\ Invocation(t).cb = "cbB"

\* C13: Every refresh that loaded successfully (on a manager that holds a
\* snapshot) installs its snapshot and calls each callback registered at
\* that moment exactly once with (old, new): old is the snapshot that was
\* current just before the installation, new the snapshot installed.  No
\* comparison of contents is made: equal content is notified as well.
C13_EachCallbackOnceWithOldAndNew ==
    [][\A t \in Tasks :
          /\ (pc[t] = "commit" /\ lerr[t] = NoError /\ config # NIL
                 /\ pc'[t] # "commit") =>
                /\ Installs(t)
                /\ config' = newConfig[t]
                /\ Len(cbs'[t]) = Len(callbacks)
                /\ idx'[t] = 1
                /\ oldConfig'[t] = config
                /\ newConfig'[t] = config'
          /\ (pc[t] = "fanout" /\ pc'[t] = "fanout") =>
                /\ oldConfig'[t] = oldConfig[t]
                /\ newConfig'[t] = newConfig[t]
                /\ idx'[t] \in {idx[t], idx[t] + 1}
          /\ (pc[t] = "fanout" /\ pc'[t] # "fanout") =>
                idx[t] = Len(cbs[t]) + 1]_vars

C13_Witness ==
    \E t \in Tasks :
        /\ pc[t] = "fanout"
        /\ Len(cbs[t]) > 0
        /\ idx[t] = Len(cbs[t]) + 1
        /\ oldConfig[t] # newConfig[t]
        /\ configs[oldConfig[t]].MessageTemplates
              = configs[newConfig[t]].MessageTemplates

\* C15: A task calls callbacks only while nobody holds the manager's lock
\* for it, so the manager operations a callback may call (GetConfig,
\* AddMessageTemplate, RemoveAllCallbacks, Stop) can take the lock.
C15_CallbacksRunUnlocked ==
    \A t \in Tasks :
        pc[t] = "fanout" =>
            /\ mu = Unlocked
            /\ ENABLED GetConfig
            /\ ENABLED AddMessageTemplate(Hello1)
            /\ ENABLED RemoveAllCallbacks
            /\ ENABLED Stop

C15_Witness ==
    \E t \in Tasks :
        /\ pc[t] = "fanout"
        /\ idx[t] = 2
        /\ mu = Unlocked
        /\ ret = [op |-> "GetConfig", val |-> [config |-> newConfig[t]]]

\* C16: RemoveAllCallbacks empties the callback list, and a refresh that
\* installs its snapshot after RemoveAllCallbacks has returned captures (and
\* so calls) none of the callbacks that were removed and not registered
\* again.
C16_RemovedCallbacksNotCaptured ==
    [][/\ RemoveAllCallbacks => callbacks' = <<>>
       /\ \A t \in Tasks :
             Installs(t) =>
                 \A i \in DOMAIN cbs'[t] : cbs'[t][i] \notin removed
       /\ \A t \in Tasks :
             (pc[t] = "fanout" /\ pc'[t] = "fanout") => cbs'[t] = cbs[t]]_vars

C16_Witness ==
    \E t \in Tasks :
        /\ pc[t] = "commit"
        /\ lerr[t] = NoError
        /\ config # NIL
        /\ removed = {"cbB"}
        /\ callbacks = <<"cbA">>

\* C14: Only a refresh calls callbacks.  A step in which a task starts,
\* advances or ends a fan-out is never a step of Start (its initial load
\* included), Stop, a manual-template mutation (Add, AddTemplates, Update,
\* Remove), UpdateSource, UpdateInterval or AddCallback: it is a step of a
\* refresh by that task, whose load succeeded.
C14_OnlyRefreshNotifies ==
    [][\A t \in Tasks :
          (idx'[t] # idx[t] \/ (pc'[t] = "fanout") # (pc[t] = "fanout")) =>
              /\ ~Operation
              /\ refreshConfig(t)
              /\ lerr[t] = NoError
              /\ newConfig[t] # NIL]_vars

C14_Witness ==
    /\ callbacks = <<"cbA">>
    /\ Len(configs) = 1
    /\ config = 1
    /\ "welcome" \in DOMAIN ManualOf(configs, maps, config)
    /\ source = SrcB
    /\ interval = 2
    /\ ~isRunning
    /\ ctxDone
    /\ \A t \in Tasks : idx[t] = 0 /\ pc[t] # "fanout"

\* C17: Refresh attempts of the refresh loop are strictly sequential: at
\* any time at most one attempt issued by a refresh loop of the manager
\* (load, installation, fan-out) is in progress.
C17_LoopAttemptsSequential ==
    Cardinality({l \in Loops : pc[l] \in Refreshing}) <= 1

\* C18: ForceRefresh returns the outcome of the one refresh attempt it
\* made: nil when its own load succeeded and was installed, the error of its
\* own load when that load failed, also when other refreshes run
\* concurrently.
C18_ForceRefreshReturnsOwnOutcome ==
    [][\A f \in Forcers :
          (pc[f] = "getErr" /\ pc'[f] = "idle") =>
              ret' = [op |-> "ForceRefresh", val |-> outcome[f]]]_vars

\* C19: A ForceRefresh call leaves the running flag, the context, the
\* source, the interval, the callback list and every refresh loop (its
\* position, its ticker and its pending tick) as they are; on a manager that
\* holds a snapshot, running or stopped, its successful load is installed
\* as the current snapshot and clears lastError.
C19_ForceRefreshFrame ==
    [][\A f \in Forcers :
          ForceRefresh(f) =>
              /\ UNCHANGED <<isRunning, ctxDone, source, interval, callbacks,
                             tick, ticker>>
              /\ \A l \in Loops : pc'[l] = pc[l]
              /\ (pc[f] = "commit" /\ lerr[f] = NoError /\ config # NIL) =>
                    /\ pc'[f] = "fanout"
                    /\ config' = newConfig[f]
                    /\ lastError' = NoError]_vars

C19_Witness ==
    \E f \in Forcers :
        /\ ~isRunning
        /\ ctxDone
        /\ pc[f] = "fanout"
        /\ config = newConfig[f]
        /\ lastError = NoError
        /\ callbacks # <<>>
        /\ \E l \in Loops : pc[l] = "waiting" /\ tick[l]

\* C20: UpdateSource(s) only stores s: it triggers no load and leaves the
\* snapshots and lastError alone.  A refresh attempt (timer tick or
\* ForceRefresh) reads the source when it starts, so an attempt that starts
\* after UpdateSource(s) has returned, with no other UpdateSource since,
\* calls the loader with s.
C20_NextAttemptLoadsNewSource ==
    [][/\ \A s \in Sources :
             UpdateSource(s) =>
                 /\ source' = s
                 /\ UNCHANGED <<configs, maps, config, lastError, pc, lsrc,
                                newConfig, lerr>>
       /\ \A t \in Tasks :
             /\ Attempts(t) => lsrc'[t].Method = source.Method
             /\ (Loads(t) /\ lsrc[t].Method = source.Method) =>
                   lsrc'[t] = source]_vars

C20_Witness ==
    \E l \in Loops, f \in Forcers :
        /\ source = SrcB
        /\ pc[l] = "commit"
        /\ lsrc[l] = SrcB
        /\ pc[f] = "commit"
        /\ lsrc[f] = SrcB

(***************************************************************************)
(* Interval changes: UpdateInterval against the refresh loop and restarts. *)
(***************************************************************************)
IntervalInit == Init /\ world[SrcB] = Unreadable /\ world[SrcA] # DocV2

IntervalNext ==
    \/ Start
    \/ Stop
    \/ \E l \in Loops : refreshLoopNewTicker(l)
    \/ \E l \in Loops : Tick(l)
    \/ \E l \in Loops : refreshLoopDone(l)
    \/ \E l \in Loops : refreshLoopTick(l)
    \/ \E l \in Loops : refreshConfigStarted(l)
    \/ \E d \in Intervals : UpdateInterval(d)
    \/ Len(callbacks) = 0 /\ AddCallback("cbA")
    \/ \E d \in {DocV1, Unreadable} : ChangeWorld(SrcA, d)

IntervalSpec == IntervalInit /\ [][IntervalNext]_vars

\* C21: UpdateInterval takes effect at the next tick.  When a refresh loop
\* of a running manager takes a tick from its ticker, the ticks that follow
\* it are spaced by the interval the manager holds at that moment: the
\* period of the loop's ticker is the current acm.interval, with no
\* Stop/Start needed after UpdateInterval.
C21_NextTickObservesInterval ==
    [][\A l \in Loops :
          (isRunning /\ pc[l] = "waiting" /\ pc'[l] = "load") =>
              ticker'[l] = interval]_vars

(***************************************************************************)
(* Mutations: the manual-template mutators against forced refreshes that   *)
(* succeed or fail, on a manager that is started and stopped.              *)
(***************************************************************************)
MutationInit == Init /\ world[SrcA] = DocV1 /\ world[SrcB] = Unreadable

MutationNext ==
    \/ Start
    \/ Stop
    \/ \E f \in Forcers : ForceRefresh(f)
    \/ \E t \in ManualTemplates : AddMessageTemplate(t)
    \/ AddMessageTemplates(<<Hello1, Hello2>>)
    \/ UpdateMessageTemplate(Hello1)
    \/ \E k \in Keys : RemoveMessageTemplate(k)
    \/ Len(callbacks) = 0 /\ AddCallback("cbA")
    \/ \E d \in {DocV1, Unreadable} : ChangeWorld(SrcA, d)

MutationSpec == MutationInit /\ [][MutationNext]_vars

\* The manual-template mutations a caller makes through the manager.
MutatesManual ==
    \/ \E t \in ManualTemplates : AddMessageTemplate(t)
    \/ \E t1, t2 \in ManualTemplates : AddMessageTemplates(<<t1, t2>>)
    \/ \E t \in ManualTemplates : UpdateMessageTemplate(t)
    \/ \E k \in Keys : RemoveMessageTemplate(k)

\* C22: Manual mutations are in place.  A manual-template mutation through a
\* manager that holds a snapshot leaves acm.config pointing at the same
\* snapshot, changes nothing of any snapshot but the manual tier of the
\* current one (loaded tier, translations, languages stay), leaves
\* lastError, isRunning, the callbacks and every refresh in progress as they
\* are, and is visible to the next read: an added or updated template is
\* what GetMessageTemplate returns for its key, and a removed key is gone
\* from the manual tier.
C22_ManualMutationInPlace ==
    [][(config # NIL /\ UNCHANGED <<pc, ret>> /\ MutatesManual) =>
          /\ config' = config
          /\ Len(configs') = Len(configs)
          /\ [configs' EXCEPT ![config].ManualMessageTemplates =
                                  configs[config].ManualMessageTemplates] = configs
          /\ \A i \in DOMAIN maps :
                i # configs[config].ManualMessageTemplates => maps'[i] = maps[i]
          /\ UNCHANGED <<world, mgr, pc, loopv, locs>>
          /\ \A t \in ManualTemplates :
                (AddMessageTemplate(t) \/ UpdateMessageTemplate(t)) =>
                    GetMessageTemplate(t.Key)' = t
          /\ \A t1, t2 \in ManualTemplates :
                AddMessageTemplates(<<t1, t2>>) => GetMessageTemplate(t2.Key)' = t2
          /\ \A k \in Keys :
                RemoveMessageTemplate(k) =>
                    k \notin DOMAIN ManualOf(configs', maps', config')]_vars

\* A template was added to a snapshot installed by a refresh while the
\* manager has a recorded error and a callback.
C22_Witness ==
    /\ config # NIL
    /\ lastError # NoError
    /\ callbacks # <<>>
    /\ isRunning
    /\ "welcome" \in DOMAIN ManualOf(configs, maps, config)
    /\ GetMessageTemplate("welcome") = Hello1
    /\ configs[config].MessageTemplates = DocV1
    /\ configs[config].Translations = DocTranslations

(***************************************************************************)
(* Acceptance: AddMessageTemplate with templates of any content, in every  *)
(* lifecycle state of the manager.                                         *)
(***************************************************************************)
\* Templates of every shape: plain, with translations, with an empty key
\* and text, with a key the documents define and with one they do not.
HelloTranslated ==
    [Key |-> "welcome", Template |-> "HELLO $name",
     Translations |-> [id |-> "HALO $name"]]
Blank == [Key |-> "", Template |-> ""]
AnyTemplates == {Hello1, HelloTranslated, Bye1, Blank}
AnyKeys == {t.Key : t \in AnyTemplates}

AcceptInit == Init /\ world[SrcB] = Unreadable /\ world[SrcA] # DocV2

AcceptNext ==
    \/ Start
    \/ Stop
    \/ \E t \in AnyTemplates : AddMessageTemplateCall(t)
    \/ \E k \in AnyKeys : GetMessageTemplateCall(k)
    \/ \E k \in AnyKeys : RemoveMessageTemplateCall(k)
    \/ \E d \in {DocV1, Unreadable} : ChangeWorld(SrcA, d)

AcceptSpec == AcceptInit /\ [][AcceptNext]_vars

\* C23 as stated: AddMessageTemplate(t) is accepted in every lifecycle
\* state.  After AddMessageTemplate(t) returns, whatever t and whether the
\* manager was never started, is running or is stopped, the manual tier maps
\* t.Key to t and GetMessageTemplate(t.Key) yields t.
C23_AcceptedInEveryState ==
    [][\A t \in AnyTemplates :
          AddMessageTemplateCall(t) => GetMessageTemplate(t.Key)' = t]_vars

\* C23 as amended: AddMessageTemplate(t) is accepted, whatever t, by a
\* manager that holds a snapshot (running, or stopped after a successful
\* Start): after the call the manual tier of the current snapshot maps t.Key
\* to t and GetMessageTemplate(t.Key) yields t.  A manager that holds no
\* snapshot drops the template: nothing changes and GetMessageTemplate(t.Key)
\* still finds nothing.
C23_AcceptedWithSnapshot ==
    [][\A t \in AnyTemplates :
          AddMessageTemplateCall(t) =>
              IF config # NIL
              THEN /\ config' = config
                   /\ t.Key \in DOMAIN ManualOf(configs', maps', config')
                   /\ ManualOf(configs', maps', config')[t.Key] = t
                   /\ GetMessageTemplate(t.Key)' = t
              ELSE /\ UNCHANGED <<config, heap>>
                   /\ GetMessageTemplate(t.Key)' = NotFound]_vars

\* A stopped manager has just accepted a template with translations over a
\* key its loaded tier defines.
C23_Witness ==
    /\ ~isRunning
    /\ config # NIL
    /\ "welcome" \in DOMAIN configs[config].MessageTemplates
    /\ ret = [op |-> "AddMessageTemplate", val |-> [template |-> HelloTranslated]]
    /\ GetMessageTemplate("welcome") = HelloTranslated

(***************************************************************************)
(* No snapshot: every accessor and mutator of the manager before, between  *)
(* and after Start calls that fail or succeed.                             *)
(***************************************************************************)
Langs == {"en", "id", "fr"}
TextKeys == {"hello", "welcome", "test"}

NoSnapshotInit == Init /\ world[SrcB] = Unreadable /\ world[SrcA] # DocV2

NoSnapshotNext ==
    \/ Start
    \/ Stop
    \/ GetConfig
    \/ \E l \in Langs, k \in TextKeys : GetTranslationCall(l, k)
    \/ \E l \in Langs, k \in TextKeys : GetTranslationWithFallbackCall(l, k)
    \/ \E k \in TextKeys : GetMessageTemplateCall(k)
    \/ GetSupportedLanguagesCall
    \/ GetDefaultLanguageCall
    \/ \E k \in TextKeys, l \in Langs : GetMessageTemplateTranslationCall(k, l)
    \/ \E k \in TextKeys, l \in Langs :
          GetMessageTemplateTranslationWithFallbackCall(k, l)
    \/ AddMessageTemplateCall(Hello1)
    \/ AddMessageTemplatesCall(<<Hello1, Hello2>>)
    \/ UpdateMessageTemplateCall(Hello2)
    \/ \E k \in TextKeys : RemoveMessageTemplateCall(k)
    \/ \E d \in {DocV1, Unreadable} : ChangeWorld(SrcA, d)

NoSnapshotSpec == NoSnapshotInit /\ [][NoSnapshotNext]_vars

\* C24: A manager without a snapshot.  While the manager holds no snapshot,
\* every manual-template mutation returns having changed nothing, and what
\* a read accessor returned is its default: GetConfig nil, GetTranslation
\* ("", false), GetTranslationWithFallback the key, GetMessageTemplate
\* (nil, false), GetSupportedLanguages empty, GetDefaultLanguage "",
\* GetMessageTemplateTranslation ("", false) and
\* GetMessageTemplateTranslationWithFallback the template key.
C24_NoSnapshotDefaults ==
    /\ [](config = NIL =>
            /\ configs = <<>> /\ maps = <<>>
            /\ ret.op = "GetConfig" => ret.val = [config |-> NIL]
            /\ ret.op = "GetTranslation" => ret.val.result = Missing
            /\ ret.op = "GetTranslationWithFallback" =>
                  ret.val.result = [text |-> ret.val.key]
            /\ ret.op = "GetMessageTemplate" => ret.val.template = NotFound
            /\ ret.op = "GetSupportedLanguages" => ret.val.result = <<>>
            /\ ret.op = "GetDefaultLanguage" => ret.val.result = [text |-> ""]
            /\ ret.op = "GetMessageTemplateTranslation" =>
                  ret.val.result = Missing
            /\ ret.op = "GetMessageTemplateTranslationWithFallback" =>
                  ret.val.result = [text |-> ret.val.key]
            /\ mu = Unlocked =>
                  /\ ENABLED AddMessageTemplateCall(Hello1)
                  /\ ENABLED AddMessageTemplatesCall(<<Hello1, Hello2>>)
                  /\ ENABLED UpdateMessageTemplateCall(Hello2)
                  /\ \A k \in TextKeys : ENABLED RemoveMessageTemplateCall(k))
    /\ [][(config = NIL
             /\ ret' # ret
             /\ ret'.op \in {"AddMessageTemplate", "AddMessageTemplates",
                             "UpdateMessageTemplate", "RemoveMessageTemplate"})
           => UNCHANGED <<world, heap, mgr, pc, loopv, locs, hist>>]_vars

\* A never-started manager was asked for a translation its source defines.
C24_Witness ==
    /\ config = NIL
    /\ ~isRunning
    /\ world[SrcA] = DocV1
    /\ ret = [op |-> "GetTranslationWithFallback",
              val |-> [lang |-> "en", key |-> "hello",
                       result |-> [text |-> "hello"]]]

(***************************************************************************)
(* Batches: AddMessageTemplates with zero to three arguments, some sharing *)
(* a key, against single additions and removals.                           *)
(***************************************************************************)
BatchTemplates == {Hello1, Hello2, Bye1}
Batches ==
    {<<>>} \cup {<<t>> : t \in BatchTemplates}
           \cup {<<t1, t2>> : t1, t2 \in BatchTemplates}
           \cup {<<Hello1, Bye1, Hello2>>, <<Hello2, Hello1, Hello1>>}

BatchInit == Init /\ world[SrcB] = Unreadable /\ world[SrcA] # DocV2

BatchNext ==
    \/ Start
    \/ Stop
    \/ \E ts \in Batches : AddMessageTemplatesCall(ts)
    \/ \E t \in BatchTemplates : AddMessageTemplateCall(t)
    \/ \E k \in TemplateKeys : RemoveMessageTemplateCall(k)
    \/ \E k \in TemplateKeys : GetMessageTemplateCall(k)

BatchSpec == BatchInit /\ [][BatchNext]_vars

\* C25: AddMessageTemplates is AddMessageTemplate for each argument in
\* order.  On a manager with a snapshot, AddMessageTemplates(t1..tn) leaves
\* the heap as n calls of AddMessageTemplate in argument order would: every
\* key among the arguments is mapped by the manual tier to the last argument
\* with that key, and every other key of the manual tier is as before.
C25_BatchIsSequentialLastWins ==
    [][\A ts \in Batches :
          (config # NIL /\ AddMessageTemplatesCall(ts)) =>
              LET before == ManualOf(configs, maps, config)
                  after  == ManualOf(configs', maps', config')
                  one(h, t) == ConfigAddMessageTemplate(h[1], h[2], config, t)
                  h0 == << configs, maps >>
                  h1 == IF Len(ts) >= 1 THEN one(h0, ts[1]) ELSE h0
                  h2 == IF Len(ts) >= 2 THEN one(h1, ts[2]) ELSE h1
                  h3 == IF Len(ts) >= 3 THEN one(h2, ts[3]) ELSE h2
                  last(k) == CHOOSE i \in DOMAIN ts :
                                 /\ ts[i].Key = k
                                 /\ \A j \in DOMAIN ts : ts[j].Key = k => j <= i
              IN  /\ config' = config
                  /\ << configs', maps' >> = h3
                  /\ DOMAIN after =
                        DOMAIN before \cup {ts[i].Key : i \in DOMAIN ts}
                  /\ \A k \in DOMAIN after :
                        after[k] = IF \E i \in DOMAIN ts : ts[i].Key = k
                                   THEN ts[last(k)]
                                   ELSE before[k]]_vars

\* A batch of three with two templates for one key has been stored.
C25_Witness ==
    /\ config # NIL
    /\ ret = [op |-> "AddMessageTemplates",
              val |-> [templates |-> <<Hello1, Bye1, Hello2>>]]
    /\ ManualOf(configs, maps, config) = [welcome |-> Hello2, bye |-> Bye1]

\* C26: RemoveMessageTemplate touches the manual tier only.  On a manager
\* with a snapshot, RemoveMessageTemplate(key) leaves every snapshot (its
\* loaded tier included) and every other map as they are, takes exactly key
\* out of the manual tier, changes nothing when the manual tier does not
\* hold key, and right after it GetMessageTemplate(key) returns the loaded
\* tier's entry for key when there is one, and nothing otherwise.
C26_RemoveOnlyFromManualTier ==
    [][\A k \in AnyKeys :
          (config # NIL /\ RemoveMessageTemplateCall(k)) =>
              LET before == ManualOf(configs, maps, config)
                  after  == ManualOf(configs', maps', config')
                  loaded == configs[config].MessageTemplates
              IN  /\ config' = config
                  /\ configs' = configs
                  /\ \A i \in DOMAIN maps :
                        i # configs[config].ManualMessageTemplates =>
                            maps'[i] = maps[i]
                  /\ DOMAIN after = DOMAIN before \ {k}
                  /\ \A j \in DOMAIN after : after[j] = before[j]
                  /\ k \notin DOMAIN before => maps' = maps
                  /\ GetMessageTemplate(k)' =
                        IF k \in DOMAIN loaded THEN loaded[k] ELSE NotFound]_vars

\* The manual entry that shadowed the loaded welcome has been removed while
\* another manual entry stays.
C26_Witness ==
    /\ config # NIL
    /\ ret = [op |-> "RemoveMessageTemplate", val |-> [key |-> "welcome"]]
    /\ ManualOf(configs, maps, config) = [bye |-> Bye1]
    /\ GetMessageTemplate("welcome") = DocV1["welcome"]

(***************************************************************************)
(* Resolution: the lookup methods of a ResponseConfig, applied to          *)
(* configurations of every shape.                                          *)
(***************************************************************************)
Restrict(f, S) == [x \in S |-> f[x]]

ManualPlain == [Key |-> "welcome", Template |-> "HELLO $name"]
LoadedPlain == [Key |-> "welcome", Template |-> "Welcome v1"]
ManualTranslations == [en |-> "HELLO EN $name", id |-> "HALO $name"]
LoadedTranslations == [en |-> "Welcome $name", id |-> "Selamat datang $name"]

\* The entries for welcome: without Translations, and with translations
\* into no, one or two languages.
EntriesOf(plain, translations) ==
    {plain} \cup
    { [Key |-> plain.Key, Template |-> plain.Template,
       Translations |-> Restrict(translations, S)] :
          S \in SUBSET DOMAIN translations }

ManualTiers == {EmptyMap} \cup
               {[welcome |-> e] : e \in EntriesOf(ManualPlain, ManualTranslations)}
LoadedTiers == {EmptyMap} \cup
               {[welcome |-> e] : e \in EntriesOf(LoadedPlain, LoadedTranslations)}
ManualHeaps == {<<>>} \cup {<<m>> : m \in ManualTiers}   \* <<>>: the map is nil

ResolveLangs == Langs \cup {""}
ResolveKeys  == {"welcome", "missing"}
DefaultLanguages == {"", "en", "id", "fr"}
TranslationTables == {<<>>, DocTranslations, [id |-> [hello |-> "Halo"]]}

\* One ResponseConfig built by hand, owned by no manager.
ResolveInit ==
    /\ world = [s \in Sources |-> Unreadable]
    /\ maps \in ManualHeaps
    /\ \E loaded \in LoadedTiers, d \in DefaultLanguages,
          tr \in TranslationTables :
          configs = << [MessageTemplates |-> loaded,
                        ManualMessageTemplates |-> Len(maps),
                        DefaultLanguage |-> d, Languages |-> DocLanguages,
                        Translations |-> tr] >>
    /\ source = SrcA
    /\ config = NIL
    /\ interval = 1
    /\ callbacks = <<>>
    /\ isRunning = FALSE
    /\ lastError = NoError
    /\ ctxDone = FALSE
    /\ mu = Unlocked
    /\ pc = [t \in Tasks |-> "idle"]
    /\ tick = [l \in Loops |-> FALSE]
    /\ ticker = [l \in Loops |-> 0]
    /\ lsrc = [t \in Tasks |-> [Method |-> "", Path |-> ""]]
    /\ newConfig = [t \in Tasks |-> NIL]
    /\ oldConfig = [t \in Tasks |-> NIL]
    /\ lerr = [t \in Tasks |-> NoError]
    /\ cbs = [t \in Tasks |-> <<>>]
    /\ idx = [t \in Tasks |-> 0]
    /\ ret = [op |-> "none", val |-> [none |-> TRUE]]
    /\ addedInFlight = {}
    /\ outcome = [f \in Forcers |-> NoError]
    /\ removed = {}

\* A method of the ResponseConfig c returns val; nothing else changes.
ConfigReturns(op, val) ==
    /\ ret' = [op |-> op, val |-> val]
    /\ UNCHANGED <<world, heap, mgr, pc, loopv, locs, hist>>

ConfigGetTranslationCall(c, lang, key) ==
    ConfigReturns("c.GetTranslation",
        [lang |-> lang, key |-> key,
         result |-> ConfigGetTranslation(configs, c, lang, key)])

ConfigGetTranslationWithFallbackCall(c, lang, key) ==
    ConfigReturns("c.GetTranslationWithFallback",
        [lang |-> lang, key |-> key,
         result |-> [text |-> ConfigGetTranslationWithFallback(
                                  configs, c, lang, key)]])

ConfigGetMessageTemplateTranslationCall(c, templateKey, lang) ==
    ConfigReturns("c.GetMessageTemplateTranslation",
        [lang |-> lang, key |-> templateKey,
         result |-> ConfigGetMessageTemplateTranslationHops(
                        configs, maps, c, templateKey, lang)])

ConfigGetMessageTemplateTranslationWithFallbackCall(c, templateKey, lang) ==
    ConfigReturns("c.GetMessageTemplateTranslationWithFallback",
        [lang |-> lang, key |-> templateKey,
         result |-> [text |-> ConfigGetMessageTemplateTranslationWithFallback(
                                  configs, maps, c, templateKey, lang)]])

ResolveNext ==
    \/ \E l \in ResolveLangs, k \in TextKeys : ConfigGetTranslationCall(1, l, k)
    \/ \E l \in ResolveLangs, k \in TextKeys :
          ConfigGetTranslationWithFallbackCall(1, l, k)
    \/ \E k \in ResolveKeys, l \in ResolveLangs :
          ConfigGetMessageTemplateTranslationCall(1, k, l)
    \/ \E k \in ResolveKeys, l \in ResolveLangs :
          ConfigGetMessageTemplateTranslationWithFallbackCall(1, k, l)

ResolveSpec == ResolveInit /\ [][ResolveNext]_vars

\* C27: Bounded resolution.  GetMessageTemplateTranslation(key, lang)
\* returns for every configuration and input after at most one recursive
\* call (into the default language; none when lang is the default language
\* or the requested language has a translation), also when the default
\* language is empty or has no translation.  Its result is the translation
\* for lang, else the translation for the default language, else the plain
\* template text, else not found; the WithFallback wrapper turns not found
\* into the key.
C27_ResolutionOrderOneHop ==
    LET manual == ManualOf(configs, maps, 1)
        loaded == configs[1].MessageTemplates
        d      == configs[1].DefaultLanguage
        k      == ret.val.key
        lang   == ret.val.lang
        has(tier, l) == /\ k \in DOMAIN tier
                        /\ "Translations" \in DOMAIN tier[k]
                        /\ l \in DOMAIN tier[k].Translations
        translated(l) == has(manual, l) \/ has(loaded, l)
        translation(l) == IF has(manual, l) THEN manual[k].Translations[l]
                          ELSE loaded[k].Translations[l]
        defined == k \in DOMAIN manual \/ k \in DOMAIN loaded
        plain == IF k \in DOMAIN manual THEN manual[k].Template
                 ELSE loaded[k].Template
        expected == IF translated(lang) THEN Found(translation(lang))
                    ELSE IF translated(d) THEN Found(translation(d))
                    ELSE IF defined THEN Found(plain)
                    ELSE Missing
    IN  /\ ret.op = "c.GetMessageTemplateTranslation" =>
              /\ ret.val.result.hops =
                    IF translated(lang) \/ lang = d THEN 0 ELSE 1
              /\ ret.val.result.found = expected.found
              /\ ret.val.result.text = expected.text
        /\ ret.op = "c.GetMessageTemplateTranslationWithFallback" =>
              ret.val.result.text =
                  IF expected.found THEN expected.text ELSE k

\* With an empty default language, a request for a language the manual
\* entry has no translation for took one hop and ended at the plain text.
C27_Witness ==
    /\ configs[1].DefaultLanguage = ""
    /\ maps = << [welcome |-> [Key |-> "welcome", Template |-> "HELLO $name",
                               Translations |-> [id |-> "HALO $name"]]] >>
    /\ ret.op = "c.GetMessageTemplateTranslation"
    /\ ret.val.key = "welcome" /\ ret.val.lang = "fr"
    /\ ret.val.result = [text |-> "HELLO $name", found |-> TRUE, hops |-> 1]

C29_ManualEntryShadowsLoadedTranslations ==
    LET manual == ManualOf(configs, maps, 1)
        d      == configs[1].DefaultLanguage
        k      == ret.val.key
        has(l) == /\ "Translations" \in DOMAIN manual[k]
                  /\ l \in DOMAIN manual[k].Translations
    IN  (/\ ret.op = "c.GetMessageTemplateTranslationWithFallback"
         /\ k \in DOMAIN manual
         /\ ~has(ret.val.lang)
         /\ ~has(d))
        => ret.val.result.text = manual[k].Template

\* C30: Flat lookup and its wrapper.  GetTranslation(lang, key) finds
\* exactly translations[lang][key], with no fallback, and
\* GetTranslationWithFallback(lang, key) returns the translation for lang
\* when there is one, else the one for the default language when there is
\* one, else key.
C30_FlatLookupAndFallback ==
    LET table == configs[1].Translations
        d     == configs[1].DefaultLanguage
        k     == ret.val.key
        has(l) == l \in DOMAIN table /\ k \in DOMAIN table[l]
    IN  /\ ret.op = "c.GetTranslation" =>
              ret.val.result = IF has(ret.val.lang)
                               THEN [text |-> table[ret.val.lang][k], found |-> TRUE]
                               ELSE [text |-> "", found |-> FALSE]
        /\ ret.op = "c.GetTranslationWithFallback" =>
              ret.val.result.text = IF has(ret.val.lang) THEN table[ret.val.lang][k]
                                    ELSE IF has(d) THEN table[d][k]
                                    ELSE k

\* A key translated into the default language only was asked for in another
\* language through the wrapper.
C30_Witness ==
    /\ configs[1].DefaultLanguage = "en"
    /\ configs[1].Translations = DocTranslations
    /\ ret = [op |-> "c.GetTranslationWithFallback",
              val |-> [lang |-> "id", key |-> "hello",
                       result |-> [text |-> "Hello"]]]

\* C31: Lock discipline.  Every read of the guarded fields is made under
\* the manager's lock and every write under the exclusive lock, so no write
\* overlaps a read: while a refresh attempt is reading acm.source for its
\* LoadConfig call, acm.source is not written, and the source the attempt
\* loads from is one the manager was given as a whole.
C31_NoWriteOverlapsRead ==
    [][\A t \in Tasks :
          /\ pc[t] = "load" => source' = source
          /\ pc'[t] = "commit" => lsrc'[t] \in Sources]_vars

\* C32: One loop per manager.  Whatever Start and Stop calls are made, at
\* most one refreshLoop goroutine of the manager is alive (started and not
\* yet returned) at any time, also when Start follows Stop while the loop of
\* the previous run is still inside a refresh attempt.
C32_AtMostOneLoopAlive ==
    Cardinality({l \in Loops : pc[l] \notin {"idle", "terminated"}}) <= 1

\* C33: The manual tier survives a restart.  When a manager that holds a
\* snapshot is started again after a Stop and the Start succeeds, every
\* template its manual tier held before the Start is still what
\* GetMessageTemplate returns for its key right after it.
C33_ManualTierSurvivesRestart ==
    [][(config # NIL /\ ~isRunning /\ isRunning') =>
          \A k \in DOMAIN ManualOf(configs, maps, config) :
              GetMessageTemplate(k)' = ManualOf(configs, maps, config)[k]]_vars

\* C34: Failed background refreshes are contained.  The step in which a
\* refresh loop records a failed load takes the loop back to its select with
\* the lock free, and changes neither the current snapshot, the running
\* flag nor what any caller was returned; a loop only ever terminates on
\* cancellation.  A loop waiting in its select keeps getting ticks and takes
\* each of them as a new attempt, however many attempts failed before, and
\* an attempt of a loop whose load succeeded is installed as current.
C34_FailedRefreshContained ==
    /\ [](\A l \in Loops :
            pc[l] = "waiting" =>
                /\ ~tick[l] => ENABLED Tick(l)
                /\ tick[l] => ENABLED refreshLoopTick(l))
    /\ [][\A l \in Loops :
            /\ (pc[l] = "commit" /\ lerr[l] # NoError /\ pc'[l] # "commit") =>
                  /\ pc'[l] = "waiting"
                  /\ mu' = Unlocked
                  /\ lastError' = lerr[l]
                  /\ UNCHANGED <<config, configs, isRunning, ctxDone, ret, loopv>>
            /\ (pc[l] # "terminated" /\ pc'[l] = "terminated") => ctxDone
            /\ (pc[l] = "commit" /\ lerr[l] = NoError /\ pc'[l] # "commit") =>
                  /\ config' = newConfig[l]
                  /\ lastError' = NoError]_vars

\* After a failed background refresh the manager runs on: the loop is back
\* in its select with the next tick pending.
C34_Witness ==
    \E l \in Loops :
        /\ isRunning
        /\ ~ctxDone
        /\ lastError # NoError
        /\ pc[l] = "waiting"
        /\ tick[l]
        /\ LoadOk(source)


\* C35: A replaced snapshot is frozen.  Once a snapshot is no longer the
\* current one (and is not a freshly loaded one still waiting to be
\* installed), no step changes its manual tier: whoever still holds it, a
\* reader or a callback, sees the manual templates it had when it was
\* replaced, whatever is added or removed through the manager later.
C35_ReplacedSnapshotFrozen ==
    [][\A c \in 1..Len(configs) :
          (/\ c # config
           /\ c # config'
           /\ \A t \in Tasks : newConfig[t] # c) =>
              ManualOf(configs', maps', c) = ManualOf(configs, maps, c)]_vars


\* C36: Installation order follows load order.  Snapshots are numbered in
\* the order in which their loads were made, so the claim is that the
\* current snapshot is only ever replaced by one with a higher number: no
\* step installs a snapshot that was loaded before the one it replaces.
C36_InstallFollowsLoadOrder ==
    [][(config # NIL /\ config' # NIL) => config' >= config]_vars


\* C37: ForceRefresh before the first Start.  On a manager without a
\* current snapshot, the step in which a forced refresh finishes its load
\* either records the failure and leaves the snapshot absent, or installs
\* the snapshot it loaded and clears lastError; it never faults.
C37_ForceRefreshBeforeStart ==
    [][\A f \in Forcers :
          (config = NIL /\ pc[f] = "commit" /\ pc'[f] # "commit") =>
              /\ pc'[f] # "panicked"
              /\ IF lerr[f] # NoError
                 THEN config' = NIL /\ lastError' = lerr[f]
                 ELSE config' = newConfig[f] /\ lastError' = NoError]_vars


\* C38: lastError after a successful Start.  Start succeeds exactly when it
\* turns the running flag on, and its load is then the most recently
\* completed one, so the claim is that every such step leaves lastError
\* nil, also when an earlier refresh had failed.
C38_StartClearsLastError ==
    [][(~isRunning /\ isRunning') => lastError' = NoError]_vars


\* C39: The fan-out of a refresh is fixed at its installation.  The
\* installing step captures the callback list as it is registered at that
\* moment, in registration order; from then on a registration or a removal
\* changes neither the captured list nor how far the fan-out has got, every
\* call of the fan-out takes the next callback of the captured list, and
\* the fan-out ends when the captured list, not the registered one, has
\* been gone through.
C39_FanOutFixedAtInstallation ==
    [][\A t \in Tasks :
          /\ Installs(t) => cbs'[t] = callbacks /\ callbacks' = callbacks
          /\ (pc[t] = "fanout" /\ callbacks' # callbacks) =>
                /\ cbs'[t] = cbs[t]
                /\ idx'[t] = idx[t]
                /\ pc'[t] = "fanout"
          /\ Invokes(t) =>
                /\ idx[t] \in DOMAIN cbs[t]
                /\ idx'[t] = idx[t] + 1
                /\ cbs'[t] = cbs[t]
          /\ (pc[t] = "fanout" /\ pc'[t] # "fanout") =>
                idx[t] = Len(cbs[t]) + 1]_vars

\* A fan-out went through the one callback it captured while a second one
\* was registered, and another while its callbacks were removed.
C39_Witness ==
    \E t \in Tasks :
        /\ pc[t] = "fanout"
        /\ cbs[t] = <<"cbA">>
        /\ idx[t] = 2
        /\ callbacks \in {<<"cbA", "cbB">>, <<>>}


\* C40: A running manager always holds a snapshot, and a manager that has
\* got a snapshot keeps one: no step (Stop, a failed Start, a failed
\* refresh, a manual-template mutation) takes the current snapshot away.
C40_SnapshotNeverAbsentAgain ==
    /\ [](isRunning => config # NIL)
    /\ [][config # NIL => config' # NIL]_vars

\* A stopped manager whose last refresh failed and whose restart failed as
\* well still holds its snapshot.
C40_Witness ==
    /\ config # NIL
    /\ ~isRunning
    /\ lastError # NoError
    /\ ret.op = "Start"
    /\ ret.val # NoError
    /\ ManualOf(configs, maps, config) # <<>>

====
